---- MODULE Spec2Model ----
(***************************************************************************)
(* Verification model of the statistical insight engine of the document    *)
(* management system (server/src/controllers/aiInsightsController.js).     *)
(*                                                                         *)
(* Numbers.  The JavaScript code computes in IEEE doubles.  The model      *)
(* takes integer-valued inputs and computes every comparison exactly, by   *)
(* cross-multiplication; a quotient that is stored in a result is kept as  *)
(* a fraction [num, den] in lowest terms.  NaN (0/0) and Infinity (x/0)    *)
(* are modelled where the code can produce them.  Thresholds and the       *)
(* smoothing factor are kept in tenths (2 is 20, 2.5 is 25, 0.3 is 3).     *)
(* JavaScript arrays are 0-based; sequences here are 1-based, and every    *)
(* index stored in a result is the 0-based index the code stores.          *)
(***************************************************************************)
EXTENDS Integers, Sequences, FiniteSets, TLC

VARIABLES
  calls,      \* the invocations of generateRealInsights in flight, by slot
  ref,        \* an observer's note of one finished invocation: input, report
  series,     \* harness of the numeric primitives: the input series
  applied,    \* which primitive the harness has applied ("none" before)
  arg,        \* the primitive's second argument (window, threshold, periods)
  trend,      \* result of detectTrend
  anomalies,  \* result of detectAnomalies
  prediction, \* result of predictNext
  averages,   \* result of calculateMovingAverage
  patterns,   \* harness of analyzeTemporalPatterns: the documents, the result
  documents,  \* the committed rows of table documents, by id
  approvals,  \* the committed rows of table approvals, by id
  logs,       \* the committed rows of table document_logs, in insertion order
  reqs        \* the uploadDocument / processApproval handlers in flight, by slot

vars == <<calls, ref, series, applied, arg, trend, anomalies, prediction, averages,
          patterns, documents, approvals, logs, reqs>>
primVars == <<series, applied, arg, trend, anomalies, prediction, averages, patterns>>
callVars == <<calls, ref>>
flowVars == <<documents, approvals, logs, reqs>>

---------------------------------------------------------------------------
(* Bounds of the model *)

MaxLen == 5        \* longest series the primitives' harness enumerates
MaxVal == 4        \* largest value in an enumerated series
MaxWindow == 4     \* largest moving-average window
MaxPeriods == 3    \* most forecast periods asked of predictNext

(* Program constants *)

DefaultThreshold == 20     \* detectAnomalies(data, threshold = 2), in tenths
CrossThreshold == 25       \* detectAnomalies(amounts, 2.5), in tenths
Alpha == 3                 \* predictNext(.., alpha = 0.3), in tenths
SlopeCut == 1              \* slope > 0.1 / slope < -0.1, in tenths
MinTrendLen == 2           \* data.length < 2
MinAnomalyLen == 3         \* data.length < 3

---------------------------------------------------------------------------
(* Arithmetic helpers *)

Abs(x) == IF x < 0 THEN -x ELSE x

RECURSIVE Gcd(_, _)
Gcd(a, b) == IF b = 0 THEN Abs(a) ELSE Gcd(b, a % b)

RECURSIVE SumSeq(_)
SumSeq(s) == IF s = <<>> THEN 0 ELSE Head(s) + SumSeq(Tail(s))

RECURSIVE GcdSeq(_)
GcdSeq(s) == IF s = <<>> THEN 0 ELSE Gcd(Head(s), GcdSeq(Tail(s)))

RECURSIVE MaxSeq(_)
MaxSeq(s) == IF Len(s) = 1 THEN s[1]
             ELSE LET m == MaxSeq(Tail(s)) IN IF s[1] >= m THEN s[1] ELSE m

Reverse(s) == [i \in 1..Len(s) |-> s[Len(s) + 1 - i]]

\* a fraction in lowest terms with a positive denominator (den # 0)
Frac(n, d) == LET g == Gcd(n, d)
                  sgn == IF d < 0 THEN -1 ELSE 1
              IN [num |-> sgn * (n \div g), den |-> sgn * (d \div g)]

\* Number.prototype.toFixed(2) of a non-negative fraction, as a number of
\* hundredths: the nearest hundredth, the larger one on a tie
ToFixed2(f) == (200 * f.num + f.den) \div (2 * f.den)

---------------------------------------------------------------------------
(* Numeric primitives *)

\* data.slice(start, end) with 0-based start (inclusive) and end (exclusive)
Slice(data, start, end) == [k \in 1..(end - start) |-> data[start + k]]

MovingStartShifted(i, windowSize) == IF i - windowSize > 0 THEN i - windowSize ELSE 0

\* Math.max(0, i - windowSize + 1), i 0-based
MovingStart(i, windowSize) == IF i - windowSize + 1 > 0 THEN i - windowSize + 1 ELSE 0

\* calculateMovingAverage: one average per index, window.reduce(sum) / window.length
calculateMovingAverage(data, windowSize) ==
  [j \in 1..Len(data) |->
     LET i == j - 1
         window == Slice(data, MovingStart(i, windowSize), i + 1)
     IN Frac(SumSeq(window), Len(window))]

\* n * sumXY - sumX * sumY over x = 0..n-1
SlopeNum(data) ==
  LET n == Len(data)
      sumX == SumSeq([i \in 1..n |-> i - 1])
      sumY == SumSeq(data)
      sumXY == SumSeq([i \in 1..n |-> (i - 1) * data[i]])
  IN n * sumXY - sumX * sumY

\* n * sumX2 - sumX * sumX, positive when n >= 2
SlopeDen(data) ==
  LET n == Len(data)
      sumX == SumSeq([i \in 1..n |-> i - 1])
      sumX2 == SumSeq([i \in 1..n |-> (i - 1) * (i - 1)])
  IN n * sumX2 - sumX * sumX

detectTrendLoose(data) ==
  IF Len(data) < MinTrendLen THEN "insufficient data"
  ELSE IF 10 * SlopeNum(data) >= SlopeCut * SlopeDen(data) THEN "increasing"
  ELSE IF 10 * SlopeNum(data) <= -SlopeCut * SlopeDen(data) THEN "decreasing"
  ELSE "stable"

\* detectTrend: slope > 0.1, slope < -0.1, else stable
detectTrend(data) ==
  IF Len(data) < MinTrendLen THEN "insufficient data"
  ELSE IF 10 * SlopeNum(data) > SlopeCut * SlopeDen(data) THEN "increasing"
  ELSE IF 10 * SlopeNum(data) < -SlopeCut * SlopeDen(data) THEN "decreasing"
  ELSE "stable"

\* n * (value - mean) for every value, divided by their common divisor: the
\* z-score is invariant under this scaling, which keeps the squares small
Deviations(data) ==
  LET n == Len(data)
      sum == SumSeq(data)
      raw == [i \in 1..n |-> n * data[i] - sum]
      g == GcdSeq(raw)
  IN IF g = 0 THEN raw ELSE [i \in 1..n |-> raw[i] \div g]

SumSquares(d) == SumSeq([i \in 1..Len(d) |-> d[i] * d[i]])

\* zScore > threshold, threshold in tenths.  zScore^2 = n*d[i]^2 / SumSquares(d).
\* With stdDev = 0 the code divides 0 by 0: NaN, and NaN > threshold is false.
ZScoreSquaredAbove(d, i, threshold) ==
  /\ SumSquares(d) > 0
  /\ 10 * Len(d) * d[i] * d[i] > threshold * SumSquares(d)

ZScoreAboveOrAt(d, i, threshold) ==
  /\ SumSquares(d) > 0
  /\ 100 * Len(d) * d[i] * d[i] >= threshold * threshold * SumSquares(d)

ZScoreAboveSample(d, i, threshold) ==
  /\ SumSquares(d) > 0
  /\ 100 * (Len(d) - 1) * d[i] * d[i] > threshold * threshold * SumSquares(d)

ZScoreAbove(d, i, threshold) ==
  /\ SumSquares(d) > 0
  /\ 100 * Len(d) * d[i] * d[i] > threshold * threshold * SumSquares(d)

RECURSIVE SelectIndices(_, _, _, _)
SelectIndices(d, i, threshold, data) ==
  IF i > Len(d) THEN <<>>
  ELSE (IF ZScoreAbove(d, i, threshold)
        THEN << [index |-> i - 1, value |-> data[i],
                 zScoreSq |-> Frac(Len(d) * d[i] * d[i], SumSquares(d))] >>
        ELSE <<>>) \o SelectIndices(d, i + 1, threshold, data)

\* detectAnomalies: the points whose z-score exceeds the threshold, in index order
detectAnomalies(data, threshold) ==
  IF Len(data) < MinAnomalyLen THEN <<>>
  ELSE SelectIndices(Deviations(data), 1, threshold, data)

\* series of five whole numbers, four of them equal, whose odd value has the
\* z-score 2 exactly and 2.0000000000000004 as lines 42-50 compute it in
\* doubles: for [5,5,5,5,2] the mean is 4.4, the standard deviation 1.2 and
\* the odd value's z-score 2.4000000000000004 / 1.2
RoundedUpSeries ==
  { [i \in 1..5 |-> IF i = k THEN 2 ELSE 5] : k \in 1..5 }
    \cup { <<22, 1, 1, 1, 1>>, <<21, 0, 0, 0, 0>> }

\* zScore > threshold as the doubles decide it: for the series above a
\* z-score that equals the threshold is computed as one above it
ZScoreAboveDoubles(data, d, i, threshold) ==
  \/ ZScoreAbove(d, i, threshold)
  \/ /\ data \in RoundedUpSeries
     /\ SumSquares(d) > 0
     /\ 100 * Len(d) * d[i] * d[i] = threshold * threshold * SumSquares(d)

RECURSIVE SelectIndicesDoubles(_, _, _, _)
SelectIndicesDoubles(d, i, threshold, data) ==
  IF i > Len(d) THEN <<>>
  ELSE (IF ZScoreAboveDoubles(data, d, i, threshold)
        THEN << [index |-> i - 1, value |-> data[i],
                 zScoreSq |-> Frac(Len(d) * d[i] * d[i], SumSquares(d))] >>
        ELSE <<>>) \o SelectIndicesDoubles(d, i + 1, threshold, data)

\* detectAnomalies with the comparison of line 51 as the doubles decide it
detectAnomaliesDoubles(data, threshold) ==
  IF Len(data) < MinAnomalyLen THEN <<>>
  ELSE SelectIndicesDoubles(Deviations(data), 1, threshold, data)

\* lines 42-45 in double arithmetic: the sum of the values and its quotient
\* by n are rounded, so the computed mean can miss the exact mean (three
\* times 0.1 gives 0.10000000000000002).  With the values in units of the
\* last place and err the computed mean minus the exact one in these units,
\* n * (value - mean) for every value; err = 0 is the exact case
RoundedDeviations(data, err) ==
  LET n == Len(data)
      sum == SumSeq(data)
  IN [i \in 1..n |-> n * data[i] - sum - n * err]

\* detectAnomalies with a mean that is off by err
detectAnomaliesRounded(data, threshold, err) ==
  IF Len(data) < MinAnomalyLen THEN <<>>
  ELSE SelectIndices(RoundedDeviations(data, err), 1, threshold, data)

Lcm(a, b) == (a \div Gcd(a, b)) * b

\* alpha * x + (1 - alpha) * s over the common denominator, alpha in tenths
Smooth(x, s) ==
  LET l == Lcm(x.den, s.den)
  IN Frac(Alpha * x.num * (l \div x.den) + (10 - Alpha) * s.num * (l \div s.den), 10 * l)

\* the last smoothed value; prev is a fraction (den # 0), read first so that
\* it is evaluated once
RECURSIVE LastSmooth(_, _)
LastSmooth(data, i) ==
  IF i = 1 THEN Frac(data[1], 1)
  ELSE LET prev == LastSmooth(data, i - 1)
       IN IF prev.den = 0 THEN prev ELSE Smooth(Frac(data[i], 1), prev)

ContinueStepDecay(next) == Frac(Alpha * next.num, 10 * next.den)

\* next = alpha * next + (1 - alpha) * next
ContinueStep(next) == Smooth(next, next)

RECURSIVE Continue(_, _)
Continue(next, periods) ==
  IF periods <= 0 THEN <<>>
  ELSE <<next>> \o Continue(ContinueStep(next), periods - 1)

\* predictNext: null under 2 values, else `periods` continuations of the last
\* smoothed value
predictNext(data, periods) ==
  IF Len(data) < MinTrendLen THEN [isNull |-> TRUE, values |-> <<>>]
  ELSE [isNull |-> FALSE, values |-> Continue(LastSmooth(data, Len(data)), periods)]

---------------------------------------------------------------------------
(* The InsightReport and its entries *)

Categories == {"trends", "anomalies", "predictions", "recommendations", "patterns", "risks"}

\* const insights = { trends: [], anomalies: [], ... }
EmptyReport == [k \in Categories |-> <<>>]

\* insights.<category>.push(entry)
Push(insights, category, entry) ==
  [insights EXCEPT ![category] = Append(@, entry)]

\* what an analyzer leaves behind: the report as far as it was filled, and
\* whether it ended by throwing
Completed(insights) == [ins |-> insights, threw |-> FALSE]
Thrown(insights) == [ins |-> insights, threw |-> TRUE]

\* a record that is null or undefined: reading any property of it throws
IsNull(r) == r.kind = "null"

\* a record whose total_amount parseFloat cannot convert to a string (a Symbol)
HasBadTotal(r) == r.kind = "badTotal"

AnyRecord(data, Test(_)) == \E i \in 1..Len(data) : Test(data[i])

---------------------------------------------------------------------------
(* Spend Analyzer *)

SpikeSeverityEager(count) == IF count >= 1 THEN "high" ELSE "medium"

\* anomalies.length > 2 ? 'high' : 'medium'
SpikeSeverity(count) == IF count > 2 THEN "high" ELSE "medium"

MonthsConfidenceLate(months) == IF months > 6 THEN "high" ELSE "medium"

\* monthlyAmounts.length >= 6 ? 'high' : 'medium'
MonthsConfidence(months) == IF months >= 6 THEN "high" ELSE "medium"

ShareAtLeastHalf(top, total) ==
  IF total = 0 THEN top > 0 ELSE 100 * top >= 50 * total

\* topVendorShare = top / total * 100; topVendorShare > 50.  A zero total
\* gives Infinity (top > 0), which is above 50, or NaN (0 / 0), which is not.
ShareAboveHalf(top, total) ==
  IF total = 0 THEN top > 0 ELSE 100 * top > 50 * total

\* topVendorShare.toFixed(1), in tenths of a percent; "Infinity" for x / 0
ShareText(top, total) ==
  IF total = 0 THEN [inf |-> TRUE, tenths |-> 0]
  ELSE [inf |-> FALSE, tenths |-> (2000 * top + total) \div (2 * total)]

\* lines 185-220: trend, spikes and forecast of the monthly series
SpendMonthly(monthlyAmounts, insights) ==
  IF Len(monthlyAmounts) >= 2 THEN
    LET n == Len(monthlyAmounts)
        t == detectTrend(monthlyAmounts)
        i1 == Push(insights, "trends",
                [type |-> "spending_trend", trend |-> t, months |-> n,
                 confidence |-> MonthsConfidence(n)])
        found == detectAnomalies(monthlyAmounts, DefaultThreshold)
        i2 == IF Len(found) > 0
              THEN Push(i1, "anomalies",
                     [type |-> "spike_detected", count |-> Len(found),
                      word |-> IF Len(found) = 1 THEN "spike" ELSE "spikes",
                      details |-> [k \in 1..Len(found) |-> n - 1 - found[k].index],
                      severity |-> SpikeSeverity(Len(found))])
              ELSE i1
        predictions == predictNext(monthlyAmounts, 3)
        i3 == IF ~predictions.isNull
              THEN Push(i2, "predictions",
                     [type |-> "spending_forecast",
                      first |-> ToFixed2(predictions.values[1]),
                      confidence |-> MonthsConfidence(n),
                      values |-> [k \in 1..Len(predictions.values) |->
                                    ToFixed2(predictions.values[k])]])
              ELSE i2
    IN i3
  ELSE insights

\* lines 222-237: vendor concentration
SpendConcentration(summary, insights) ==
  IF Len(summary.byVendor) > 0 THEN
    LET top == MaxSeq(summary.byVendor)
    IN IF ShareAboveHalf(top, summary.totalAmount)
       THEN Push(insights, "risks",
              [type |-> "concentration_risk",
               share |-> ShareText(top, summary.totalAmount),
               severity |-> "high"])
       ELSE insights
  ELSE insights

MonthlyAmountsUnreversed(summary) == summary.byMonth

\* lines 181-183: Object.values(summary.byMonth || {}).map(m => m.amount).reverse()
MonthlyAmounts(summary) == Reverse(summary.byMonth)

\* generateSpendInsights(data, summary, insights).  A null summary throws at
\* summary.byMonth, before anything is pushed; a null entry of
\* summary.byVendor throws at v.amount, after the monthly entries.
generateSpendInsights(data, summary, insights) ==
  IF summary.kind = "null" THEN Thrown(insights)
  ELSE LET monthly == SpendMonthly(MonthlyAmounts(summary), insights)
       IN IF summary.kind = "nullVendorEntry" THEN Thrown(monthly)
          ELSE Completed(SpendConcentration(summary, monthly))

---------------------------------------------------------------------------
(* Vendor Analyzer *)

FarFromMeanOrAt(d, i) == Len(d) * d[i] * d[i] >= 4 * SumSquares(d)

\* Math.abs(x - mean) > 2 * stdDev for the i-th value, d being the
\* Deviations of the values: |d[i]| / n > 2 * sqrt(sum d^2 / n^3)
FarFromMean(d, i) == Len(d) * d[i] * d[i] > 4 * SumSquares(d)

RECURSIVE TrueIndices(_, _)
TrueIndices(flags, i) ==
  IF i > Len(flags) THEN <<>>
  ELSE (IF flags[i] THEN <<i>> ELSE <<>>) \o TrueIndices(flags, i + 1)

\* the indices 1..n that satisfy Test, in order: Array.prototype.filter
PickIndices(n, Test(_)) == TrueIndices([i \in 1..n |-> Test(i)], 1)

VendorNames(data, idx) == [k \in 1..Len(idx) |-> data[idx[k]].vendor_name]

generateVendorInsightsOfDecided(data, insights) ==
  IF AnyRecord(data, IsNull) \/ AnyRecord(data, HasBadTotal) THEN Thrown(insights)
  ELSE
    LET n == Len(data)
        amounts == [i \in 1..n |-> data[i].total_amount]
        deviations == Deviations(amounts)
        IsUnusual(i) == FarFromMean(deviations, i)
        unusual == PickIndices(n, IsUnusual)
        i1 == IF Len(unusual) > 0
              THEN Push(insights, "anomalies",
                     [type |-> "unusual_vendors", count |-> Len(unusual),
                      vendors |-> VendorNames(data, unusual),
                      severity |-> IF Len(unusual) > 3 THEN "high" ELSE "medium"])
              ELSE insights
        IsGrowing(i) ==
          LET approved == data[i].approved_count
              total == approved + data[i].rejected_count
          IN total > 0 /\ 10 * approved > 8 * total /\ approved > 5
        growing == PickIndices(n, IsGrowing)
        i2 == IF Len(growing) > 0
              THEN Push(i1, "trends",
                     [type |-> "growing_vendors", count |-> Len(growing),
                      vendors |-> VendorNames(data, growing),
                      confidence |-> "high"])
              ELSE i1
        IsHighRisk(i) ==
          LET total == IF data[i].approved_count + data[i].rejected_count = 0 THEN 1
                       ELSE data[i].approved_count + data[i].rejected_count
          IN 10 * data[i].rejected_count > 3 * total
        risky == PickIndices(n, IsHighRisk)
        i3 == IF Len(risky) > 0
              THEN Push(i2, "risks",
                     [type |-> "vendor_risk", count |-> Len(risky),
                      vendors |-> VendorNames(data, risky),
                      severity |-> "high"])
              ELSE i2
    IN Completed(i3)

\* generateVendorInsights(data, insights).  data.map(v => parseFloat(
\* v.total_amount || 0)) throws on a null row and on a total_amount that
\* cannot be converted, before anything is pushed.
generateVendorInsights(data, insights) ==
  IF AnyRecord(data, IsNull) \/ AnyRecord(data, HasBadTotal) THEN Thrown(insights)
  ELSE
    LET n == Len(data)
        amounts == [i \in 1..n |-> data[i].total_amount]
        deviations == Deviations(amounts)
        IsUnusual(i) == FarFromMean(deviations, i)
        unusual == PickIndices(n, IsUnusual)
        i1 == IF Len(unusual) > 0
              THEN Push(insights, "anomalies",
                     [type |-> "unusual_vendors", count |-> Len(unusual),
                      vendors |-> VendorNames(data, unusual),
                      severity |-> IF Len(unusual) > 3 THEN "high" ELSE "medium"])
              ELSE insights
        IsGrowing(i) ==
          LET approved == data[i].approved_count
              total == approved + data[i].rejected_count
          IN total > 0 /\ 10 * approved > 8 * total /\ approved > 5
        growing == PickIndices(n, IsGrowing)
        i2 == IF Len(growing) > 0
              THEN Push(i1, "trends",
                     [type |-> "growing_vendors", count |-> Len(growing),
                      vendors |-> VendorNames(data, growing),
                      confidence |-> "high"])
              ELSE i1
        IsHighRisk(i) ==
          LET total == IF data[i].document_count = 0 THEN 1 ELSE data[i].document_count
          IN 10 * data[i].rejected_count > 3 * total
        risky == PickIndices(n, IsHighRisk)
        i3 == IF Len(risky) > 0
              THEN Push(i2, "risks",
                     [type |-> "vendor_risk", count |-> Len(risky),
                      vendors |-> VendorNames(data, risky),
                      severity |-> "high"])
              ELSE i2
    IN Completed(i3)

---------------------------------------------------------------------------
(* Tax Analyzer *)

RECURSIVE LcmSeq(_)
LcmSeq(s) == IF s = <<>> THEN 1 ELSE Lcm(Head(s), LcmSeq(Tail(s)))

\* vat / amount * 100 for every document, over the common denominator of the
\* amounts (all amounts non-zero)
TaxRates(data) ==
  LET p == LcmSeq([i \in 1..Len(data) |-> data[i].amount])
  IN [i \in 1..Len(data) |-> 100 * data[i].vat * (p \div data[i].amount)]

\* lines 326-354: growth of the last quarter over the one before, and forecast
TaxQuarters(byQuarter, insights) ==
  IF Len(byQuarter) >= 2 THEN
    LET last == byQuarter[Len(byQuarter)]
        prev == byQuarter[Len(byQuarter) - 1]
        growth == Frac(100 * (last - prev), IF prev = 0 THEN 1 ELSE prev)
        i1 == Push(insights, "trends",
                [type |-> "tax_growth",
                 direction |-> IF growth.num > 0 THEN "increased" ELSE "decreased",
                 value |-> growth, confidence |-> "high"])
        nextVat == predictNext(byQuarter, 1).values[1]
    IN IF nextVat.num # 0
       THEN Push(i1, "predictions",
              [type |-> "tax_forecast", value |-> nextVat,
               confidence |-> IF Len(byQuarter) >= 4 THEN "high" ELSE "medium"])
       ELSE i1
  ELSE insights

\* generateTaxInsights(data, summary, insights).  A null row throws at
\* d.amount before anything is pushed; a null summary throws at
\* summary.byQuarter, after the tax_inconsistency entry.  A zero amount makes
\* a rate NaN or Infinity, the mean and deviation NaN, and every comparison
\* with them false.
generateTaxInsights(data, summary, insights) ==
  IF AnyRecord(data, IsNull) THEN Thrown(insights)
  ELSE
    LET n == Len(data)
        ZeroAmount(r) == r.amount = 0
        deviations == Deviations(TaxRates(data))
        IsInconsistent(i) == FarFromMean(deviations, i)
        odd == IF AnyRecord(data, ZeroAmount) THEN <<>> ELSE PickIndices(n, IsInconsistent)
        i1 == IF Len(odd) > 0
              THEN Push(insights, "anomalies",
                     [type |-> "tax_inconsistency", count |-> Len(odd),
                      documents |-> [k \in 1..Len(odd) |-> data[odd[k]].invoice_number],
                      severity |-> IF Len(odd) > 5 THEN "high" ELSE "medium"])
              ELSE insights
    IN IF summary.kind = "null" THEN Thrown(i1)
       ELSE Completed(TaxQuarters(summary.byQuarter, i1))

---------------------------------------------------------------------------
(* Approval Analyzer *)

CountWhere(n, Test(_)) == Len(PickIndices(n, Test))

\* new Date(created_at) of a string that is no date: Invalid Date, whose
\* difference with any date is NaN
InvalidDate == -1

\* the NaN of a 0 / 0, in the shape of a fraction
NaN == [num |-> 0, den |-> 0]

\* new Date(lastStep.created_at) - new Date(firstStep.created_at) is NaN
TimeIsNaN(history) ==
  history[1] = InvalidDate \/ history[Len(history)] = InvalidDate

StepOfRaw(r) == r.current_step

\* d.current_step || 1
StepOf(r) == IF r.current_step = 0 THEN 1 ELSE r.current_step

\* generateApprovalInsights(data, summary, insights).  A null row throws at
\* d.document_status before anything is pushed.
generateApprovalInsights(data, summary, insights) ==
  IF AnyRecord(data, IsNull) THEN Thrown(insights)
  ELSE
    LET n == Len(data)
        IsApproved(i) == data[i].document_status = "approved"
        IsRejected(i) == data[i].document_status = "rejected"
        approved == CountWhere(n, IsApproved)
        rejected == CountWhere(n, IsRejected)
        i1 == Push(insights, "trends",
                [type |-> "approval_efficiency",
                 approvalRate |-> IF n > 0 THEN Frac(100 * approved, n) ELSE Frac(0, 1),
                 rejectionRate |-> IF n > 0 THEN Frac(100 * rejected, n) ELSE Frac(0, 1),
                 confidence |-> "high"])
        IsStuck(i) == data[i].document_status = "pending" /\ data[i].pending_steps > 0
        stuck == PickIndices(n, IsStuck)
        StuckAt(s) == Cardinality({k \in 1..Len(stuck) : StepOf(data[stuck[k]]) = s})
        steps == {StepOf(data[stuck[k]]) : k \in 1..Len(stuck)}
        \* Object.entries lists integer keys in ascending order and the sort is
        \* stable: the smallest step among those with the most documents
        bottleneck == CHOOSE s \in steps :
                        \A t \in steps : StuckAt(s) > StuckAt(t) \/ (StuckAt(s) = StuckAt(t) /\ s <= t)
        i2 == IF Len(stuck) > 0
              THEN Push(i1, "risks",
                     [type |-> "approval_bottleneck", stuck |-> Len(stuck),
                      step |-> bottleneck, pending |-> StuckAt(bottleneck),
                      severity |-> IF Len(stuck) > 10 THEN "high" ELSE "medium"])
              ELSE i1
        HasHistory(i) == Len(data[i].history) > 0
        timed == PickIndices(n, HasHistory)
        days == [k \in 1..Len(timed) |->
                   data[timed[k]].history[Len(data[timed[k]].history)] - data[timed[k]].history[1]]
        i3 == IF Len(timed) > 0
              THEN Push(i2, "predictions",
                     [type |-> "approval_time",
                      value |-> IF \E k \in 1..Len(timed) : TimeIsNaN(data[timed[k]].history)
                                THEN NaN ELSE Frac(SumSeq(days), Len(timed)),
                      confidence |-> IF Len(timed) > 10 THEN "high" ELSE "medium"])
              ELSE i2
    IN Completed(i3)

---------------------------------------------------------------------------
(* Cross-Cutting Analyzer *)

MinPatternDocs == 10      \* documents.length > 10
MinAmountDocs == 5        \* amounts.length > 5

\* analyzeTemporalPatterns: { total, count } of the documents of one month
MonthBucket(data, m) ==
  LET InMonth(i) == data[i].month = m
      idx == PickIndices(Len(data), InMonth)
  IN [total |-> SumSeq([k \in 1..Len(idx) |-> data[idx[k]].amount]), count |-> Len(idx)]

\* analyzeTemporalPatterns: the number of documents of one weekday
DayCount(data, d) ==
  LET OnDay(i) == data[i].dow = d
  IN CountWhere(Len(data), OnDay)

QuarterOfMonthFromZero(month) == IF month = InvalidDate THEN InvalidDate ELSE month \div 3

\* Math.floor(month / 3) + 1; the month of an Invalid Date is NaN and so is
\* its quarter (InvalidDate stands for the key 'NaN')
QuarterOfMonth(month) == IF month = InvalidDate THEN InvalidDate ELSE (month \div 3) + 1

\* one grouping of analyzeTemporalPatterns: { total, count } under every key
\* that occurs
GroupBy(keys, amounts) ==
  [k \in {keys[i] : i \in 1..Len(keys)} |->
     [total |-> SumSeq([i \in 1..Len(keys) |-> IF keys[i] = k THEN amounts[i] ELSE 0]),
      count |-> Cardinality({i \in 1..Len(keys) : keys[i] = k})]]

\* analyzeTemporalPatterns(documents): dow and month are date.getDay() and
\* date.getMonth() of new Date(doc.date)
analyzeTemporalPatterns(docs) ==
  LET n == Len(docs)
      amounts == [i \in 1..n |-> docs[i].amount]
  IN [byDayOfWeek |-> GroupBy([i \in 1..n |-> docs[i].dow], amounts),
      byMonth |-> GroupBy([i \in 1..n |-> docs[i].month], amounts),
      byQuarter |-> GroupBy([i \in 1..n |-> QuarterOfMonth(docs[i].month)], amounts)]

\* Object.entries(patterns.byMonth).sort((a, b) => b[1].total - a[1].total)[0]:
\* keys come in ascending order and the sort is stable
BusiestMonth(data) ==
  LET months == {data[i].month : i \in 1..Len(data)}
  IN CHOOSE m \in months :
       \A o \in months :
         \/ MonthBucket(data, m).total > MonthBucket(data, o).total
         \/ MonthBucket(data, m).total = MonthBucket(data, o).total /\ m <= o

\* the weekday that comes first among `days` after the sort by count, descending
TopDay(data, days) ==
  CHOOSE d \in days :
    \A o \in days :
      \/ DayCount(data, d) > DayCount(data, o)
      \/ DayCount(data, d) = DayCount(data, o) /\ d <= o

\* lines 469-484: anomalies of the amount distribution
AmountAnomalies(data, insights) ==
  LET amounts == [i \in 1..Len(data) |-> data[i].amount]
      found == IF Len(amounts) > MinAmountDocs
               THEN detectAnomalies(amounts, CrossThreshold) ELSE <<>>
  IN IF Len(found) > 0
     THEN Push(insights, "anomalies",
            [type |-> "amount_anomalies", count |-> Len(found),
             severity |-> IF Len(found) > 3 THEN "high" ELSE "medium",
             details |-> [k \in 1..Len(found) |->
                            [amount |-> found[k].value, zScoreSq |-> found[k].zScoreSq]]])
     ELSE insights

generateCrossCuttingInsightsFromTen(data, insights) ==
  IF AnyRecord(data, IsNull) THEN Thrown(insights)
  ELSE IF Len(data) >= MinPatternDocs THEN
    LET busiest == BusiestMonth(data)
        i1 == Push(insights, "patterns",
                [type |-> "seasonal_pattern", month |-> busiest,
                 data |-> MonthBucket(data, busiest), confidence |-> "medium"])
        days == {data[i].dow : i \in 1..Len(data)}
        first == TopDay(data, days)
    IN IF Cardinality(days) < 2 THEN Thrown(i1)
       ELSE Completed(AmountAnomalies(data,
              Push(i1, "patterns",
                [type |-> "weekly_pattern",
                 days |-> <<first, TopDay(data, days \ {first})>>,
                 confidence |-> "high"])))
  ELSE Completed(AmountAnomalies(data, insights))

\* generateCrossCuttingInsights(data, insights).  With more than 10 documents
\* a null row throws in analyzeTemporalPatterns before anything is pushed,
\* and a single weekday throws at activeDays[1][0], after the
\* seasonal_pattern entry; with 10 or fewer a null row throws at d.amount.
generateCrossCuttingInsights(data, insights) ==
  IF AnyRecord(data, IsNull) THEN Thrown(insights)
  ELSE IF Len(data) > MinPatternDocs THEN
    LET busiest == BusiestMonth(data)
        i1 == Push(insights, "patterns",
                [type |-> "seasonal_pattern", month |-> busiest,
                 data |-> MonthBucket(data, busiest), confidence |-> "medium"])
        days == {data[i].dow : i \in 1..Len(data)}
        first == TopDay(data, days)
    IN IF Cardinality(days) < 2 THEN Thrown(i1)
       ELSE Completed(AmountAnomalies(data,
              Push(i1, "patterns",
                [type |-> "weekly_pattern",
                 days |-> <<first, TopDay(data, days \ {first})>>,
                 confidence |-> "high"])))
  ELSE Completed(AmountAnomalies(data, insights))

---------------------------------------------------------------------------
(* Insight Assembler: generateRealInsights *)

ReportTypes == {"spend-summary", "vendor-analysis", "tax-vat-report", "approval-status"}

RunAnalyzerDefaultSpend(reportType, data, summary, insights) ==
  CASE reportType = "vendor-analysis" -> generateVendorInsights(data, insights)
    [] reportType = "tax-vat-report" -> generateTaxInsights(data, summary, insights)
    [] reportType = "approval-status" -> generateApprovalInsights(data, summary, insights)
    [] OTHER -> generateSpendInsights(data, summary, insights)

\* switch (reportType): one analyzer, or none for an unrecognized type
RunAnalyzer(reportType, data, summary, insights) ==
  CASE reportType = "spend-summary" -> generateSpendInsights(data, summary, insights)
    [] reportType = "vendor-analysis" -> generateVendorInsights(data, insights)
    [] reportType = "tax-vat-report" -> generateTaxInsights(data, summary, insights)
    [] reportType = "approval-status" -> generateApprovalInsights(data, summary, insights)
    [] OTHER -> Completed(insights)

NewReportShared(cs) ==
  IF \E d \in DOMAIN cs : cs[d].pc # "idle"
  THEN cs[CHOOSE d \in DOMAIN cs : cs[d].pc # "idle"].insights
  ELSE EmptyReport

\* const insights = {...}: every invocation allocates its own report, whatever
\* the other invocations `cs` hold
NewReport(cs) == EmptyReport

CaughtRethrown(r) == IF r.threw THEN "exception" ELSE "report"

\* try { ... } catch (error) { console.error(...) } return insights: what the
\* caller gets when the try block ended as r
Caught(r) == "report"

NoInput == [reportType |-> "", data |-> <<>>, summary |-> [kind |-> "null"]]

IdleCall ==
  [pc |-> "idle", input |-> NoInput, insights |-> EmptyReport,
   threwIn |-> "none", outcome |-> "none"]

\* generateRealInsights(reportType, data, summary) is called: the report is
\* allocated
Invoke(c, inputs) ==
  /\ calls[c].pc = "idle"
  /\ \E in \in inputs :
       calls' = [calls EXCEPT ![c] =
                   [pc |-> "dispatch", input |-> in, insights |-> NewReport(calls),
                    threwIn |-> "none", outcome |-> "none"]]
  /\ UNCHANGED <<ref, primVars, flowVars>>

\* the switch and the awaited analyzer; a throw goes to the catch block and
\* from there to the return
Analyze(c) ==
  /\ calls[c].pc = "dispatch"
  /\ LET in == calls[c].input
         r == RunAnalyzer(in.reportType, in.data, in.summary, calls[c].insights)
     IN calls' = [calls EXCEPT ![c] =
                    IF r.threw
                    THEN [@ EXCEPT !.pc = "returned", !.insights = r.ins,
                                   !.threwIn = "analyzer", !.outcome = Caught(r)]
                    ELSE [@ EXCEPT !.pc = "crosscut", !.insights = r.ins]]
  /\ UNCHANGED <<ref, primVars, flowVars>>

\* the awaited generateCrossCuttingInsights, then the return
CrossCut(c) ==
  /\ calls[c].pc = "crosscut"
  /\ LET r == generateCrossCuttingInsights(calls[c].input.data, calls[c].insights)
     IN calls' = [calls EXCEPT ![c] =
                    [@ EXCEPT !.pc = "returned", !.insights = r.ins,
                              !.threwIn = IF r.threw THEN "crosscut" ELSE "none",
                              !.outcome = Caught(r)]]
  /\ UNCHANGED <<ref, primVars, flowVars>>

\* the caller has taken the report (or the exception); the slot is free again
Deliver(c) ==
  /\ calls[c].pc = "returned"
  /\ calls' = [calls EXCEPT ![c] = IdleCall]
  /\ UNCHANGED <<ref, primVars, flowVars>>

\* an observer notes the input and the report of a finished invocation
Note(c) ==
  /\ calls[c].pc = "returned"
  /\ ref = <<>>
  /\ ref' = << [input |-> calls[c].input, insights |-> calls[c].insights] >>
  /\ UNCHANGED <<calls, primVars, flowVars>>

---------------------------------------------------------------------------
(* Upload and the three-step approval workflow: uploadDocument              *)
(* (documentController.js) and processApproval (approvalController.js)      *)
(* over the tables documents and approvals (scripts/createTables.js).       *)
(* Every handler runs its statements in one transaction of the default      *)
(* isolation level, READ COMMITTED: its SELECT reads the committed rows,    *)
(* and its writes become visible together at COMMIT.  An UPDATE of a row    *)
(* another transaction has updated waits for that transaction's COMMIT and  *)
(* then applies to the committed row, so the writes of a transaction take   *)
(* effect in one step, in commit order.                                     *)

MaxDocs == 2         \* most rows of table documents
MaxApprovals == 4    \* most rows of table approvals
MaxRequests == 2     \* most handlers in flight at once

TolerancePct == 1    \* const tolerance = 0.01

Roles == {"admin", "approver", "viewer"}

\* a row of table documents: the columns the handlers read and write; recent
\* is created_at > NOW() - INTERVAL '30 days'
DocumentRow(vendor_id, invoice_number, amount) ==
  [vendor_id |-> vendor_id, invoice_number |-> invoice_number, amount |-> amount,
   status |-> "pending", recent |-> TRUE]

\* a row of table approvals, its id (SERIAL) being its position; by is the
\* role of the user approver_id names ("none" while NULL)
ApprovalRow(document_id, step, role) ==
  [document_id |-> document_id, step |-> step, status |-> "pending",
   role |-> role, by |-> "none"]

NoApproval == ApprovalRow(0, 0, "")

NoUpload == [vendor_id |-> 0, invoice_number |-> "", amount |-> 0]

WithinToleranceStrict(existing, amount) ==
  100 * Abs(existing - amount) < TolerancePct * amount

\* ABS(amount - $2::numeric) <= $2::numeric * $3
WithinTolerance(existing, amount) ==
  100 * Abs(existing - amount) <= TolerancePct * amount

\* checkForDuplicates(invoiceNumber, vendorId, amount) over the committed
\* documents; a query that fails is caught and reported as no duplicate
checkForDuplicates(docs, invoiceNumber, vendorId, amount, fails) ==
  IF fails THEN [isDuplicate |-> FALSE, matchType |-> "error"]
  ELSE IF \E d \in 1..Len(docs) :
            docs[d].invoice_number = invoiceNumber /\ docs[d].vendor_id = vendorId
  THEN [isDuplicate |-> TRUE, matchType |-> "exact"]
  ELSE IF \E d \in 1..Len(docs) :
            /\ docs[d].vendor_id = vendorId
            /\ WithinTolerance(docs[d].amount, amount)
            /\ docs[d].recent
  THEN [isDuplicate |-> TRUE, matchType |-> "similar"]
  ELSE [isDuplicate |-> FALSE, matchType |-> "none"]

\* a table whose only unique column is the primary key
UniqueViolationOfIdOnly(docs, in) == FALSE

\* UNIQUE(invoice_number, vendor_id): the INSERT fails with code 23505
UniqueViolation(docs, in) ==
  \E d \in 1..Len(docs) :
    docs[d].invoice_number = in.invoice_number /\ docs[d].vendor_id = in.vendor_id

\* a row of table document_logs: the document and details.action
LogRow(document_id, action) == [document_id |-> document_id, action |-> action]

\* file is the file multer stored for an upload: "none", "stored" or
\* "removed" (fs.unlinkSync); failedAt is the statement of the transaction
\* that failed
IdleRequest ==
  [op |-> "none", pc |-> "idle", role |-> "", id |-> 0, status |-> "",
   seen |-> NoApproval, input |-> NoUpload, found |-> "", response |-> 0,
   file |-> "none", failedAt |-> "none"]

\* the handlers in flight that are about to INSERT a row into approvals
Inserting ==
  Cardinality({r \in DOMAIN reqs : reqs[r].pc \in {"insert", "update"}})

\* uploadDocument up to the duplicate check: a request without a file or
\* without a required field is answered 400, and so is a duplicate, after
\* the stored file is deleted; anything else goes on to the INSERT
UploadCheck(r, inputs) ==
  /\ reqs[r].pc = "idle"
  /\ Len(documents) + Inserting < MaxDocs
  /\ Len(approvals) + Inserting < MaxApprovals
  /\ \E in \in inputs, fails \in BOOLEAN, lacks \in {"nothing", "file", "field"} :
       LET dup == checkForDuplicates(documents, in.invoice_number, in.vendor_id,
                                     in.amount, fails)
           refused == lacks # "nothing" \/ dup.isDuplicate
       IN reqs' = [reqs EXCEPT ![r] =
                     [IdleRequest EXCEPT !.op = "upload", !.input = in,
                                         !.found = IF lacks = "nothing" THEN dup.matchType
                                                   ELSE lacks,
                                         !.pc = IF refused THEN "done" ELSE "insert",
                                         !.response = IF refused THEN 400 ELSE 0,
                                         !.file = IF lacks = "file" THEN "none"
                                                  ELSE IF refused THEN "removed"
                                                  ELSE "stored"]]
  /\ UNCHANGED <<documents, approvals, logs, callVars, primVars>>

\* the statements of uploadDocument's transaction
UploadStatements == {"documents", "approvals", "document_logs", "commit"}

\* uploadDocument from the INSERT to the COMMIT: the document row with status
\* 'pending', its step-1 approval and the workflow-start log row; a unique
\* violation or the failure of a statement goes to the catch block: ROLLBACK,
\* the file is deleted, 400 (code 23505) or 500
UploadInsert(r) ==
  /\ reqs[r].op = "upload"
  /\ reqs[r].pc = "insert"
  /\ \E failure \in UploadStatements \cup {"none"} :
       LET in == reqs[r].input
       IN IF UniqueViolation(documents, in)
          THEN /\ reqs' = [reqs EXCEPT ![r].pc = "done", ![r].response = 400,
                                       ![r].file = "removed", ![r].failedAt = "documents"]
               /\ UNCHANGED <<documents, approvals, logs>>
          ELSE IF failure # "none"
          THEN /\ reqs' = [reqs EXCEPT ![r].pc = "done", ![r].response = 500,
                                       ![r].file = "removed", ![r].failedAt = failure]
               /\ UNCHANGED <<documents, approvals, logs>>
          ELSE /\ documents' = Append(documents,
                                 DocumentRow(in.vendor_id, in.invoice_number, in.amount))
               /\ approvals' = Append(approvals,
                                 ApprovalRow(Len(documents) + 1, 1, "approver"))
               /\ logs' = Append(logs, LogRow(Len(documents) + 1, "approval_workflow_started"))
               /\ reqs' = [reqs EXCEPT ![r].pc = "done", ![r].response = 201]
  /\ UNCHANGED <<callVars, primVars>>

NotAuthorizedLoose(role, step) ==
  (role = "approver" /\ step > 3) \/ role = "viewer"

\* req.user.role === 'approver' && approval.step > 2, req.user.role === 'viewer'
NotAuthorized(role, step) ==
  (role = "approver" /\ step > 2) \/ role = "viewer"

\* the answer without the 'Approval already processed' check
RefusalOfProcessed(status, found, approval, role) ==
  IF status \notin {"approved", "rejected"} THEN 400
  ELSE IF ~found THEN 404
  ELSE IF NotAuthorized(role, approval.step) THEN 403
  ELSE 0

\* the answer of processApproval's checks, 0 when the request passes them:
\* 400 'Invalid status', 404 'Approval not found', 400 'Approval already
\* processed', 403
Refusal(status, found, approval, role) ==
  IF status \notin {"approved", "rejected"} THEN 400
  ELSE IF ~found THEN 404
  ELSE IF approval.status # "pending" THEN 400
  ELSE IF NotAuthorized(role, approval.step) THEN 403
  ELSE 0

\* processApproval up to the UPDATE: the status parameter, the SELECT of the
\* approval and the checks on the row it returned
ProcessSelect(r) ==
  /\ reqs[r].pc = "idle"
  /\ Len(approvals) + Inserting < MaxApprovals
  /\ \E role \in Roles, id \in 1..(Len(approvals) + 1),
        status \in {"approved", "rejected", "pending"} :
       LET found == id \in 1..Len(approvals)
           approval == IF found THEN approvals[id] ELSE NoApproval
           answer == Refusal(status, found, approval, role)
       IN reqs' = [reqs EXCEPT ![r] =
                     [IdleRequest EXCEPT !.op = "process", !.role = role, !.id = id,
                                         !.status = status, !.seen = approval,
                                         !.pc = IF answer = 0 THEN "update" ELSE "done",
                                         !.response = answer]]
  /\ UNCHANGED <<documents, approvals, logs, callVars, primVars>>

\* the next approval a step's approval creates: nextStep === 3 ? 'admin' : 'approver'
NextApproval(approval) ==
  ApprovalRow(approval.document_id, approval.step + 1,
              IF approval.step + 1 = 3 THEN "admin" ELSE "approver")

\* processApproval from the UPDATE to the COMMIT, decided on the row the
\* SELECT returned
ProcessCommit(r) ==
  /\ reqs[r].op = "process"
  /\ reqs[r].pc = "update"
  /\ LET id == reqs[r].id
         approval == reqs[r].seen
         status == reqs[r].status
         updated == [approvals EXCEPT ![id].status = status, ![id].by = reqs[r].role]
         documentStatus == IF status = "rejected" THEN "rejected"
                           ELSE IF approval.step = 3 THEN "approved"
                           ELSE "pending"
     IN /\ approvals' = IF status = "approved" /\ approval.step # 3
                        THEN Append(updated, NextApproval(approval))
                        ELSE updated
        /\ documents' = [documents EXCEPT ![approval.document_id].status = documentStatus]
        /\ logs' = Append(logs, LogRow(approval.document_id,
                                        IF status = "rejected" THEN "rejected"
                                        ELSE IF approval.step = 3 THEN "fully_approved"
                                        ELSE "step_approved"))
        /\ reqs' = [reqs EXCEPT ![r].pc = "done", ![r].response = 200]
  /\ UNCHANGED <<callVars, primVars>>

\* the response has been sent; the slot is free again
Respond(r) ==
  /\ reqs[r].pc = "done"
  /\ reqs' = [reqs EXCEPT ![r] = IdleRequest]
  /\ UNCHANGED <<documents, approvals, logs, callVars, primVars>>

\* thirty days have passed since a document was created
Age(d) ==
  /\ documents[d].recent
  /\ documents' = [documents EXCEPT ![d].recent = FALSE]
  /\ UNCHANGED <<approvals, logs, reqs, callVars, primVars>>

\* no table row and no handler
FlowIdle ==
  /\ documents = <<>>
  /\ approvals = <<>>
  /\ logs = <<>>
  /\ reqs = <<>>

---------------------------------------------------------------------------
(* Harness of the numeric primitives: a series is drawn, one primitive is  *)
(* applied to it.                                                          *)

RECURSIVE SeqsUpTo(_, _)
SeqsUpTo(S, n) ==
  IF n = 0 THEN {<<>>}
  ELSE LET shorter == SeqsUpTo(S, n - 1)
       IN shorter \cup {Append(s, v) : s \in {t \in shorter : Len(t) = n - 1}, v \in S}

NamedSeries ==
  { <<10, 10, 10, 10, 100>>, <<10, 10, 10, 10, 10, 100>>,
    <<1, 2, 3, 4, 5>>, <<5, 4, 3, 2, 1>>, <<3, 3, 3, 3>>, <<1>>,
    <<10, 20>>, <<1000, 1000, 1000, 1000, 1000, 5000>>,
    <<1, 1, 1, 1, 1, 1, 1, 2>> }

SeriesSet == SeqsUpTo(1..MaxVal, MaxLen) \cup NamedSeries

NoPrediction == [isNull |-> TRUE, values |-> <<>>]

\* analyzeTemporalPatterns has not been applied
NoPatterns ==
  [documents |-> <<>>, done |-> FALSE, byDayOfWeek |-> <<>>, byMonth |-> <<>>,
   byQuarter |-> <<>>]

\* a series is drawn; no primitive has been applied and no invocation of
\* generateRealInsights exists
PrimInit ==
  /\ series \in SeriesSet
  /\ applied = "none"
  /\ arg = 0
  /\ trend = ""
  /\ anomalies = <<>>
  /\ prediction = NoPrediction
  /\ averages = <<>>
  /\ patterns = NoPatterns
  /\ calls = <<>>
  /\ ref = <<>>
  /\ FlowIdle

ApplyMovingAverage ==
  /\ applied = "none"
  /\ \E w \in 1..MaxWindow :
       /\ arg' = w
       /\ averages' = calculateMovingAverage(series, w)
  /\ applied' = "calculateMovingAverage"
  /\ UNCHANGED <<series, trend, anomalies, prediction, patterns, callVars, flowVars>>

ApplyDetectTrend ==
  /\ applied = "none"
  /\ trend' = detectTrend(series)
  /\ applied' = "detectTrend"
  /\ UNCHANGED <<series, arg, anomalies, prediction, averages, patterns, callVars, flowVars>>

ApplyDetectAnomalies ==
  /\ applied = "none"
  /\ \E t \in {DefaultThreshold, CrossThreshold} :
       /\ arg' = t
       /\ anomalies' = detectAnomalies(series, t)
  /\ applied' = "detectAnomalies"
  /\ UNCHANGED <<series, trend, prediction, averages, patterns, callVars, flowVars>>

ApplyPredictNext ==
  /\ applied = "none"
  /\ \E p \in 1..MaxPeriods :
       /\ arg' = p
       /\ prediction' = predictNext(series, p)
  /\ applied' = "predictNext"
  /\ UNCHANGED <<series, trend, anomalies, averages, patterns, callVars, flowVars>>

PrimNext ==
  \/ ApplyMovingAverage
  \/ ApplyDetectTrend
  \/ ApplyDetectAnomalies
  \/ ApplyPredictNext

PrimIdle ==
  /\ applied = "none"
  /\ series = <<>>
  /\ arg = 0
  /\ trend = ""
  /\ anomalies = <<>>
  /\ prediction = NoPrediction
  /\ averages = <<>>
  /\ patterns = NoPatterns

SpecPrim == PrimInit /\ [][PrimNext]_vars

---------------------------------------------------------------------------
(* Inputs of generateRealInsights: rows as the report queries return them   *)
(* (reportController.js), and malformed ones                                *)

MaxRecords == 11   \* longest record list
MaxMonths == 6     \* most months in summary.byMonth
MaxVendors == 2    \* most vendors in summary.byVendor
MaxSmall == 5      \* most months, and most vendors, of the small samples

\* a row: the columns the analyzers read.  month and dow are what
\* new Date(doc.date) yields; history holds the created_at days of the
\* approval history
Row(amount, vat, month, dow, vendor, approved, rejected, status, pending, step, history) ==
  [kind |-> "ok", amount |-> amount, vat |-> vat, month |-> month, dow |-> dow,
   vendor_name |-> vendor, total_amount |-> amount,
   approved_count |-> approved, rejected_count |-> rejected,
   document_count |-> approved + rejected,
   document_status |-> status, pending_steps |-> pending, current_step |-> step,
   invoice_number |-> vendor, history |-> history]

RowA == Row(100, 15, 0, 1, "acme", 6, 0, "approved", 0, 3, <<1, 3>>)
RowB == Row(900, 15, 5, 4, "bolt", 1, 2, "pending", 1, 2, <<>>)
NullRow == [RowA EXCEPT !.kind = "null"]
BadTotalRow == [RowA EXCEPT !.kind = "badTotal"]
\* a row whose approval history carries a created_at that is no date
BadDateRow == [RowA EXCEPT !.history = <<1, InvalidDate>>]
\* a large amount on the weekday of RowA
RowC == [RowB EXCEPT !.dow = 1]

\* n rows: `base` throughout, `last` at the end
MkData(n, base, last) == [i \in 1..n |-> IF i = n THEN last ELSE base]

DataLists ==
  { MkData(n, b, l) : n \in 0..MaxRecords, b \in {RowA, RowB},
                      l \in {RowA, RowB, RowC, NullRow, BadTotalRow, BadDateRow} }

\* summary.byMonth as getSpendSummaryStats builds it from rows in date-descending
\* order: the newest month first
\* sixteen months, the newest three far above the thirteen before them
ThreeSpikes == [i \in 1..16 |-> IF i <= 3 THEN 5 ELSE 1]

MonthSeries ==
  { [i \in 1..n |-> IF i = 1 THEN newest ELSE 1000] : n \in 0..MaxMonths, newest \in {1000, 5000} }
    \cup {ThreeSpikes}

VendorAmounts == SeqsUpTo({0, 4999, 5000, 5001}, MaxVendors)

QuarterSeries == { <<>>, <<15>>, <<0, 15>>, <<30, 15>>, <<15, 15, 30, 45>> }

Summary(kind, byMonth, byVendor, totalAmount, byQuarter) ==
  [kind |-> kind, byMonth |-> byMonth, byVendor |-> byVendor,
   totalAmount |-> totalAmount, byQuarter |-> byQuarter]

NullSummary == Summary("null", <<>>, <<>>, 0, <<>>)
PlainSummary ==
  Summary("ok", <<5000, 1000, 1000, 1000, 1000, 1000>>, <<4999, 5001>>, 10000, <<30, 15>>)
NullVendorSummary == [PlainSummary EXCEPT !.kind = "nullVendorEntry"]

Input(reportType, data, summary) ==
  [reportType |-> reportType, data |-> data, summary |-> summary]

\* every report type (and an unrecognized one) over every record list
AnyTypeInputs ==
  { Input(t, d, s) : t \in ReportTypes \cup {"audit-trail"}, d \in DataLists,
                     s \in {NullSummary, PlainSummary, NullVendorSummary} }

\* the Spend Analyzer over every summary
SpendInputs ==
  { Input("spend-summary", MkData(2, RowA, RowB), Summary(k, m, v, t, <<>>)) :
      k \in {"ok", "nullVendorEntry"}, m \in MonthSeries, v \in VendorAmounts,
      t \in {0, 10000} }

\* the Tax Analyzer over every quarter series
TaxInputs ==
  { Input("tax-vat-report", MkData(n, RowA, RowB), Summary("ok", <<>>, <<>>, 0, q)) :
      n \in 0..3, q \in QuarterSeries }

Inputs == AnyTypeInputs \cup SpendInputs \cup TaxInputs

\* the inputs of the concurrent invocations: full-length record lists
ConcInputs ==
  { in \in AnyTypeInputs :
      /\ Len(in.data) = MaxRecords
      /\ in.data[1] = RowA
      /\ in.data[MaxRecords] \in {RowB, BadTotalRow}
      /\ in.summary = PlainSummary }

---------------------------------------------------------------------------
(* Specifications *)

\* one invocation at a time, over all inputs
Init ==
  /\ calls = [c \in {1} |-> IdleCall]
  /\ ref = <<>>
  /\ PrimIdle
  /\ FlowIdle

Next ==
  \/ \E c \in DOMAIN calls : Invoke(c, Inputs)
  \/ \E c \in DOMAIN calls : Analyze(c)
  \/ \E c \in DOMAIN calls : CrossCut(c)
  \/ \E c \in DOMAIN calls : Deliver(c)

Spec == Init /\ [][Next]_vars

\* two invocations whose awaits interleave, and an observer
ConcInit ==
  /\ calls = [c \in {1, 2} |-> IdleCall]
  /\ ref = <<>>
  /\ PrimIdle
  /\ FlowIdle

ConcNext ==
  \/ \E c \in DOMAIN calls : Invoke(c, ConcInputs)
  \/ \E c \in DOMAIN calls : Analyze(c)
  \/ \E c \in DOMAIN calls : CrossCut(c)
  \/ \E c \in DOMAIN calls : Deliver(c)
  \/ \E c \in DOMAIN calls : Note(c)

SpecConc == ConcInit /\ [][ConcNext]_vars

\* the uploads the workflow specification draws from
UploadInput(vendor_id, invoice_number, amount) ==
  [vendor_id |-> vendor_id, invoice_number |-> invoice_number, amount |-> amount]

UploadInputs ==
  { UploadInput(1, "INV-1", 100), UploadInput(2, "INV-1", 500), UploadInput(1, "INV-2", 99) }

\* the one upload the workflow specification starts documents from
FlowUploads == { UploadInput(1, "INV-1", 100) }

\* uploads and approvals by MaxRequests handlers whose statements interleave
FlowInit ==
  /\ documents = <<>>
  /\ approvals = <<>>
  /\ logs = <<>>
  /\ reqs = [r \in 1..MaxRequests |-> IdleRequest]
  /\ calls = <<>>
  /\ ref = <<>>
  /\ PrimIdle

FlowNext ==
  \/ \E r \in DOMAIN reqs : UploadCheck(r, FlowUploads)
  \/ \E r \in DOMAIN reqs : UploadInsert(r)
  \/ \E r \in DOMAIN reqs : ProcessSelect(r)
  \/ \E r \in DOMAIN reqs : ProcessCommit(r)
  \/ \E r \in DOMAIN reqs : Respond(r)

SpecFlow == FlowInit /\ [][FlowNext]_vars

\* uploads by MaxRequests handlers whose statements interleave, while time
\* passes
UploadNext ==
  \/ \E r \in DOMAIN reqs : UploadCheck(r, UploadInputs)
  \/ \E r \in DOMAIN reqs : UploadInsert(r)
  \/ \E r \in DOMAIN reqs : Respond(r)
  \/ \E d \in DOMAIN documents : Age(d)

SpecUpload == FlowInit /\ [][UploadNext]_vars

AllEqual(s) == \A i \in 1..Len(s) : s[i] = s[1]

\* detectAnomalies on a drawn series of identical values, for thresholds from
\* 0 to 2.5 (in tenths) and a mean that is exact or one unit off
ApplyDetectAnomaliesRounded ==
  /\ applied = "none"
  /\ Len(series) > 0
  /\ AllEqual(series)
  /\ \E t \in {0, 5, 10, DefaultThreshold, CrossThreshold}, err \in {-1, 0, 1} :
       /\ arg' = t
       /\ anomalies' = detectAnomaliesRounded(series, t, err)
       /\ applied' = IF err = 0 THEN "detectAnomalies" ELSE "detectAnomalies, mean rounded"
  /\ UNCHANGED <<series, trend, prediction, averages, patterns, callVars, flowVars>>

\* a row with the tax rate of RowA and another amount
RowD == Row(200, 30, 0, 4, "dyna", 6, 0, "approved", 0, 3, <<1, 3>>)

\* vendor and tax rows whose totals, or rates, are all equal, or all but the last
UniformInputs ==
  { Input(t, MkData(n, RowA, l), PlainSummary) :
      t \in {"vendor-analysis", "tax-vat-report"}, n \in 0..MaxRecords,
      l \in {RowA, RowB, RowD} }

\* either a series is drawn for the primitive, or generateRealInsights is
\* called over the uniform inputs
ZeroVarInit == PrimInit \/ Init

ZeroVarNext ==
  \/ ApplyDetectAnomaliesRounded
  \/ \E c \in DOMAIN calls : Invoke(c, UniformInputs)
  \/ \E c \in DOMAIN calls : Analyze(c)
  \/ \E c \in DOMAIN calls : CrossCut(c)
  \/ \E c \in DOMAIN calls : Deliver(c)

SpecZeroVar == ZeroVarInit /\ [][ZeroVarNext]_vars

\* detectAnomalies with the default threshold on a drawn series, the
\* comparison decided as the doubles decide it
ApplyDetectAnomaliesDoubles ==
  /\ applied = "none"
  /\ arg' = DefaultThreshold
  /\ anomalies' = detectAnomaliesDoubles(series, DefaultThreshold)
  /\ applied' = "detectAnomalies"
  /\ UNCHANGED <<series, trend, prediction, averages, patterns, callVars, flowVars>>

\* monthly totals of up to MaxSmall months, newest first
SmallMonthSeries == SeqsUpTo({1000, 5000}, MaxSmall)

\* rows of up to MaxSmall vendors
SmallVendorLists ==
  SeqsUpTo({ [RowA EXCEPT !.total_amount = 100], [RowB EXCEPT !.total_amount = 900] },
           MaxSmall)

SmallInputs ==
  { Input("spend-summary", MkData(2, RowA, RowB), Summary("ok", m, <<4999, 5001>>, 10000, <<>>)) :
      m \in SmallMonthSeries }
    \cup { Input("vendor-analysis", d, PlainSummary) : d \in SmallVendorLists }

\* either a series is drawn for the primitive, the series of RoundedUpSeries
\* among them, or generateRealInsights is called over the small inputs
SmallInit ==
  \/ /\ series \in SeriesSet \cup RoundedUpSeries
     /\ applied = "none"
     /\ arg = 0
     /\ trend = ""
     /\ anomalies = <<>>
     /\ prediction = NoPrediction
     /\ averages = <<>>
     /\ patterns = NoPatterns
     /\ calls = <<>>
     /\ ref = <<>>
     /\ FlowIdle
  \/ Init

SmallNext ==
  \/ ApplyDetectAnomaliesDoubles
  \/ \E c \in DOMAIN calls : Invoke(c, SmallInputs)
  \/ \E c \in DOMAIN calls : Analyze(c)
  \/ \E c \in DOMAIN calls : CrossCut(c)
  \/ \E c \in DOMAIN calls : Deliver(c)

SpecSmall == SmallInit /\ [][SmallNext]_vars

\* a row of getVendorAnalysis: document_count counts the pending documents
\* too
VendorRow(name, total, approved, rejected, pending) ==
  [Row(total, 0, 0, 1, name, approved, rejected, "approved", 0, 3, <<>>)
     EXCEPT !.document_count = approved + rejected + pending]

VendorRowSet ==
  { VendorRow("v1", 100, 6, 1, 0), VendorRow("v2", 100, 8, 2, 0),
    VendorRow("v3", 100, 5, 0, 0), VendorRow("v4", 100, 7, 3, 0),
    VendorRow("v5", 900, 6, 4, 3), VendorRow("v6", 0, 0, 0, 0),
    VendorRow("v7", 100, 2, 1, 7) }

\* up to two vendors, followed by up to MaxRecords - 2 more like the first of
\* VendorRowSet
VendorLists ==
  { head \o MkData(n, VendorRow("v1", 100, 6, 1, 0), VendorRow("v1", 100, 6, 1, 0)) :
      head \in SeqsUpTo(VendorRowSet, 2), n \in {0, 3, 4, MaxRecords - 2} }

VendorInputs == { Input("vendor-analysis", d, PlainSummary) : d \in VendorLists }

\* generateRealInsights over the vendor rows
VendorNext ==
  \/ \E c \in DOMAIN calls : Invoke(c, VendorInputs)
  \/ \E c \in DOMAIN calls : Analyze(c)
  \/ \E c \in DOMAIN calls : CrossCut(c)
  \/ \E c \in DOMAIN calls : Deliver(c)

SpecVendor == Init /\ [][VendorNext]_vars

\* a row of getApprovalStatusReport; current_step 0 stands for null
ApprovalDoc(status, pending_steps, current_step) ==
  Row(100, 15, 0, 1, "acme", 0, 0, status, pending_steps, current_step, <<>>)

ApprovalDocSet ==
  { ApprovalDoc("pending", 1, 1), ApprovalDoc("pending", 2, 0),
    ApprovalDoc("pending", 1, 3), ApprovalDoc("pending", 0, 3),
    ApprovalDoc("approved", 1, 3), ApprovalDoc("rejected", 0, 2) }

\* up to two documents, followed by none, one, eight or nine documents stuck
\* at step 2
ApprovalLists ==
  { head \o MkData(n, ApprovalDoc("pending", 1, 2), ApprovalDoc("pending", 1, 2)) :
      head \in SeqsUpTo(ApprovalDocSet, 2), n \in {0, 1, MaxRecords - 3, MaxRecords - 2} }

ApprovalInputs == { Input("approval-status", d, PlainSummary) : d \in ApprovalLists }

\* generateRealInsights over the approval rows
ApprovalNext ==
  \/ \E c \in DOMAIN calls : Invoke(c, ApprovalInputs)
  \/ \E c \in DOMAIN calls : Analyze(c)
  \/ \E c \in DOMAIN calls : CrossCut(c)
  \/ \E c \in DOMAIN calls : Deliver(c)

SpecApproval == Init /\ [][ApprovalNext]_vars

MaxDated == 3      \* longest document list given to analyzeTemporalPatterns

\* a document dated on weekday dow of month `month`
DatedRow(month, dow, amount) ==
  Row(amount, 0, month, dow, "acme", 0, 0, "approved", 0, 0, <<>>)

\* a row without a date column, as getVendorAnalysis returns: new
\* Date(undefined) is an Invalid Date
UndatedRow == DatedRow(InvalidDate, InvalidDate, 100)

DatedRowSet ==
  { DatedRow(m, d, a) : m \in {0, 2, 3, 11}, d \in {0, 6}, a \in {100} }
    \cup { DatedRow(0, 0, 250), UndatedRow }

\* analyzeTemporalPatterns is applied to a drawn document list
TemporalInit ==
  /\ patterns \in { [NoPatterns EXCEPT !.documents = d] : d \in SeqsUpTo(DatedRowSet, MaxDated) }
  /\ series = <<>>
  /\ applied = "none"
  /\ arg = 0
  /\ trend = ""
  /\ anomalies = <<>>
  /\ prediction = NoPrediction
  /\ averages = <<>>
  /\ calls = <<>>
  /\ ref = <<>>
  /\ FlowIdle

ApplyTemporalPatterns ==
  /\ ~patterns.done
  /\ patterns' = [documents |-> patterns.documents, done |-> TRUE]
                   @@ analyzeTemporalPatterns(patterns.documents)
  /\ UNCHANGED <<series, applied, arg, trend, anomalies, prediction, averages,
                 callVars, flowVars>>

TemporalNext == ApplyTemporalPatterns

SpecTemporal == TemporalInit /\ [][TemporalNext]_vars

---------------------------------------------------------------------------
(* generateReport (reportController.js): the rows of the report query, in  *)
(* date-descending order, the summary built from them, and the call of     *)
(* generateRealInsights                                                    *)

MaxRows == 4       \* most rows a report query returns

\* a row of getSpendSummary / getTaxReport for a document dated in month m of
\* 2024: month, quarter and year are the query's EXTRACT columns
ReportRow(m, amount, vat, vendor) ==
  [year |-> 2024, sqlMonth |-> m, quarter |-> ((m - 1) \div 3) + 1]
    @@ Row(amount, vat, m - 1, m % 7, vendor, 0, 0, "approved", 0, 0, <<>>)

RECURSIVE FirstOccurrences(_, _)
FirstOccurrences(keys, seen) ==
  IF keys = <<>> THEN <<>>
  ELSE IF Head(keys) \in seen THEN FirstOccurrences(Tail(keys), seen)
  ELSE <<Head(keys)>> \o FirstOccurrences(Tail(keys), seen \cup {Head(keys)})

\* the buckets of an object filled by data.forEach: the keys in the order of
\* their first row (Object.keys / Object.values list string keys in
\* insertion order), each with the sum of its rows' values
Buckets(keys, values) ==
  LET order == FirstOccurrences(keys, {})
  IN [b \in 1..Len(order) |->
        [key |-> order[b],
         total |-> SumSeq([i \in 1..Len(keys) |-> IF keys[i] = order[b] THEN values[i] ELSE 0])]]

Totals(buckets) == [b \in 1..Len(buckets) |-> buckets[b].total]

\* `${doc.year}-${String(doc.month).padStart(2, '0')}`
MonthKey(doc) == <<doc.year, doc.sqlMonth>>

\* `Q${doc.quarter}-${doc.year}`
QuarterKey(doc) == <<doc.quarter, doc.year>>

\* getSpendSummaryStats(data): totalAmount, byMonth and byVendor
getSpendSummaryStats(data) ==
  LET n == Len(data)
      amounts == [i \in 1..n |-> data[i].amount]
  IN Summary("ok",
             Totals(Buckets([i \in 1..n |-> MonthKey(data[i])], amounts)),
             Totals(Buckets([i \in 1..n |-> data[i].vendor_name], amounts)),
             SumSeq(amounts), <<>>)

\* getTaxStats(data): byQuarter (the vat of each quarter)
getTaxStats(data) ==
  LET n == Len(data)
  IN Summary("ok", <<>>, <<>>, SumSeq([i \in 1..n |-> data[i].amount]),
             Totals(Buckets([i \in 1..n |-> QuarterKey(data[i])],
                            [i \in 1..n |-> data[i].vat])))

\* ORDER BY d.date DESC
DateDescending(rows) ==
  \A i \in 1..(Len(rows) - 1) : rows[i].sqlMonth >= rows[i + 1].sqlMonth

ReportRowSet ==
  { ReportRow(m, a, v, IF a = 100 THEN "acme" ELSE "bolt") :
      m \in {1, 2, 4, 7}, a \in {100, 300}, v \in {15} }

\* the results of the report queries
ReportRows == { rows \in SeqsUpTo(ReportRowSet, MaxRows) : DateDescending(rows) }

\* generateReport for 'spend-summary' and 'tax-vat-report': the query, the
\* statistics and the call of generateRealInsights with them
GenerateReport(c) ==
  /\ calls[c].pc = "idle"
  /\ \E reportType \in {"spend-summary", "tax-vat-report"}, data \in ReportRows :
       LET summary == IF reportType = "spend-summary" THEN getSpendSummaryStats(data)
                      ELSE getTaxStats(data)
       IN calls' = [calls EXCEPT ![c] =
                      [pc |-> "dispatch", input |-> Input(reportType, data, summary),
                       insights |-> NewReport(calls), threwIn |-> "none",
                       outcome |-> "none"]]
  /\ UNCHANGED <<ref, primVars, flowVars>>

ReportNext ==
  \/ \E c \in DOMAIN calls : GenerateReport(c)
  \/ \E c \in DOMAIN calls : Analyze(c)
  \/ \E c \in DOMAIN calls : CrossCut(c)
  \/ \E c \in DOMAIN calls : Deliver(c)

SpecReport == Init /\ [][ReportNext]_vars

---------------------------------------------------------------------------
(* Properties of the numeric primitives, checked under SpecPrim *)

RECURSIVE Pow(_, _)
Pow(b, e) == IF e = 0 THEN 1 ELSE b * Pow(b, e - 1)

AnomalyIndices(as) == [k \in 1..Len(as) |-> as[k].index]

\* C4 as the specification states it: detectAnomalies([10,10,10,10,100], 2)
\* returns exactly one anomaly, at index 4.
C4_OneOutlierOfFive ==
  (applied = "detectAnomalies" /\ arg = DefaultThreshold
     /\ series = <<10, 10, 10, 10, 100>>)
  => AnomalyIndices(anomalies) = <<4>>

\* C4 (amended): detectAnomalies([10,10,10,10,100], 2) returns the empty list,
\* because the outlier's z-score is exactly 2, which is not strictly greater
\* than the threshold; with one more 10, [10,10,10,10,10,100], it returns
\* exactly one anomaly, at index 5.
C4_OutlierNeedsSixPoints ==
  applied = "detectAnomalies" /\ arg = DefaultThreshold =>
    /\ series = <<10, 10, 10, 10, 100>> => anomalies = <<>>
    /\ series = <<10, 10, 10, 10, 10, 100>> =>
         /\ AnomalyIndices(anomalies) = <<5>>
         /\ anomalies[1].value = 100

C4_Witness ==
  /\ applied = "detectAnomalies"
  /\ arg = DefaultThreshold
  /\ series = <<10, 10, 10, 10, 100>>

\* the least-squares slope in its centred form, as the two sums
\* sum (x - mean x)(y - mean y) and sum (x - mean x)^2, each scaled by n^2
CentredCov(data) ==
  LET n == Len(data)
  IN SumSeq([i \in 1..n |-> (n * (i - 1) - SumSeq([k \in 1..n |-> k - 1]))
                              * (n * data[i] - SumSeq(data))])

CentredVar(data) ==
  LET n == Len(data)
      dx == [i \in 1..n |-> n * (i - 1) - SumSeq([k \in 1..n |-> k - 1])]
  IN SumSeq([i \in 1..n |-> dx[i] * dx[i]])

\* C5: detectTrend is 'insufficient data' under 2 values; otherwise it is
\* 'increasing' iff the least-squares slope over positions 0..n-1 is > 0.1,
\* 'decreasing' iff it is < -0.1 and 'stable' otherwise (both strict), with
\* the four stated examples.
C5_TrendClassification ==
  applied = "detectTrend" =>
    /\ Len(series) < 2 => trend = "insufficient data"
    /\ Len(series) >= 2 =>
         /\ CentredVar(series) > 0
         /\ trend = "increasing" <=> 10 * CentredCov(series) > CentredVar(series)
         /\ trend = "decreasing" <=> 10 * CentredCov(series) < -CentredVar(series)
         /\ trend = "stable" <=>
              /\ 10 * CentredCov(series) <= CentredVar(series)
              /\ 10 * CentredCov(series) >= -CentredVar(series)
    /\ series = <<1, 2, 3, 4, 5>> => trend = "increasing"
    /\ series = <<5, 4, 3, 2, 1>> => trend = "decreasing"
    /\ series = <<3, 3, 3, 3>> => trend = "stable"
    /\ series = <<1>> => trend = "insufficient data"

\* a series whose slope is exactly 0.1 has been classified
C5_Witness ==
  /\ applied = "detectTrend"
  /\ Len(series) >= 2
  /\ 10 * CentredCov(series) = CentredVar(series)
  /\ trend = "stable"

\* the last exponentially smoothed value in closed form:
\* (1-a)^(n-1) d[1] + sum over i >= 2 of a (1-a)^(n-i) d[i], over 10^(n-1)
SmoothedClosed(data) ==
  LET n == Len(data)
  IN Frac(Pow(10 - Alpha, n - 1) * data[1]
          + SumSeq([k \in 1..(n - 1) |->
                     Alpha * Pow(10 - Alpha, n - 1 - k) * Pow(10, k - 1) * data[k + 1]]),
          Pow(10, n - 1))

InUnits(data) ==
  LET g == GcdSeq(data)
  IN IF g = 0 THEN data ELSE [i \in 1..Len(data) |-> data[i] \div g]

\* n^2 times the squared deviation of the i-th value from the population mean
SqDev(data, i) ==
  LET u == InUnits(data)
  IN (Len(u) * u[i] - SumSeq(u)) * (Len(u) * u[i] - SumSeq(u))

\* n^3 times the population variance (the sum of squared deviations over n)
PopVar(data) == SumSeq([j \in 1..Len(data) |-> SqDev(data, j)])

\* |value - mean| / stdDev > threshold (in tenths), squared and cleared of
\* its denominators; false when the deviation is 0
Outlier(data, i, threshold) ==
  /\ PopVar(data) > 0
  /\ 100 * Len(data) * SqDev(data, i) > threshold * threshold * PopVar(data)

RECURSIVE Ascending(_)
Ascending(s) == Len(s) < 2 \/ (s[1] < s[2] /\ Ascending(Tail(s)))

---------------------------------------------------------------------------
(* Properties of generateRealInsights, checked under Spec *)

Returned(c) == calls[c].pc = "returned"

TypesOf(entries) == {entries[k].type : k \in 1..Len(entries)}

EntriesOfType(entries, type) == {k \in 1..Len(entries) : entries[k].type = type}

IsList(v) == DOMAIN v = 1..Len(v)

\* what the analyzer stage of an invocation leaves, from an empty report
AnalyzerResult(in) == RunAnalyzer(in.reportType, in.data, in.summary, EmptyReport)

\* C1: for every report type, record list and summary, malformed ones
\* included, generateRealInsights hands its caller a report and no exception;
\* the report has the six list-valued categories and holds exactly the
\* entries appended before the exception, if there was one.
C1_NeverPropagates ==
  \A c \in DOMAIN calls :
    /\ calls[c].outcome # "exception"
    /\ Returned(c) =>
         LET in == calls[c].input
             got == calls[c].insights
             a == AnalyzerResult(in)
         IN /\ calls[c].outcome = "report"
            /\ DOMAIN got = Categories
            /\ \A k \in Categories : IsList(got[k])
            /\ a.threw => calls[c].threwIn = "analyzer" /\ got = a.ins
            /\ ~a.threw =>
                 LET x == generateCrossCuttingInsights(in.data, a.ins)
                 IN /\ got = x.ins
                    /\ x.threw <=> calls[c].threwIn = "crosscut"

\* an invocation has returned a partly filled report after a throw
C1_Witness ==
  \E c \in DOMAIN calls :
    /\ Returned(c)
    /\ calls[c].threwIn = "analyzer"
    /\ calls[c].insights # EmptyReport
    /\ calls[c].outcome = "report"

\* C2: when the Vendor Analyzer throws during a 'vendor-analysis' call, the
\* Cross-Cutting Analyzer's pattern entries are still in the returned report
\* whenever there are more than 10 records.  (Stated for record lists the
\* Cross-Cutting Analyzer itself can read: no row is null.)
C2_PatternsSurviveVendorFailure ==
  \A c \in DOMAIN calls :
    (/\ Returned(c)
     /\ calls[c].input.reportType = "vendor-analysis"
     /\ calls[c].threwIn = "analyzer"
     /\ ~AnyRecord(calls[c].input.data, IsNull)
     /\ Len(calls[c].input.data) > 10)
    => "seasonal_pattern" \in TypesOf(calls[c].insights.patterns)

\* C3 as the specification states it: an unrecognized report type leaves
\* all six categories empty, for every record list.
C3_UnrecognizedTypeLeavesAllEmpty ==
  \A c \in DOMAIN calls :
    (Returned(c) /\ calls[c].input.reportType \notin ReportTypes)
    => calls[c].insights = EmptyReport

\* C3 (amended): with an unrecognized report type no Report-Type Analyzer
\* runs: trends, predictions, recommendations and risks are empty for every
\* record list, and patterns and anomalies hold nothing but the
\* Cross-Cutting Analyzer's entries (pattern entries only with more than 10
\* records, an amount_anomalies entry only with more than 5), so that all six
\* categories are empty for every list of at most 5 records.
C3_UnrecognizedTypeOnlyCrossCutting ==
  \A c \in DOMAIN calls :
    (Returned(c) /\ calls[c].input.reportType \notin ReportTypes) =>
      LET got == calls[c].insights
          n == Len(calls[c].input.data)
      IN /\ got.trends = <<>> /\ got.predictions = <<>>
         /\ got.recommendations = <<>> /\ got.risks = <<>>
         /\ TypesOf(got.patterns) \subseteq {"seasonal_pattern", "weekly_pattern"}
         /\ TypesOf(got.anomalies) \subseteq {"amount_anomalies"}
         /\ n <= 10 => got.patterns = <<>>
         /\ n <= 5 => got = EmptyReport

\* an unrecognized type has come back with cross-cutting entries
C3_Witness ==
  \E c \in DOMAIN calls :
    /\ Returned(c)
    /\ calls[c].input.reportType \notin ReportTypes
    /\ calls[c].insights.patterns # <<>>
    /\ calls[c].insights.anomalies # <<>>

\* C8: the Spend Analyzer emits a concentration_risk entry (severity 'high')
\* iff the largest amount of summary.byVendor is strictly more than 50% of
\* summary.totalAmount: none at exactly 50% (5000 of 10000), one at 50.01%
\* (5001 of 10000).
C8_ConcentrationBoundary ==
  \A c \in DOMAIN calls :
    (/\ Returned(c)
     /\ calls[c].input.reportType = "spend-summary"
     /\ calls[c].input.summary.kind = "ok") =>
      LET s == calls[c].input.summary
          risks == calls[c].insights.risks
          hits == EntriesOfType(risks, "concentration_risk")
          over == \E i \in 1..Len(s.byVendor) : 2 * s.byVendor[i] > s.totalAmount
      IN /\ Cardinality(hits) = (IF over THEN 1 ELSE 0)
         /\ \A k \in hits : risks[k].severity = "high"
         /\ (s.totalAmount = 10000 /\ s.byVendor = <<5000, 5000>>) => hits = {}
         /\ (s.totalAmount = 10000 /\ s.byVendor = <<4999, 5001>>) => hits # {}

\* the top vendor holds exactly half of the total and no risk was emitted
C8_Witness ==
  \E c \in DOMAIN calls :
    /\ Returned(c)
    /\ calls[c].input.reportType = "spend-summary"
    /\ calls[c].input.summary.kind = "ok"
    /\ calls[c].input.summary.totalAmount = 10000
    /\ calls[c].input.summary.byVendor = <<5000, 5000>>
    /\ calls[c].insights.risks = <<>>
    /\ calls[c].insights.trends # <<>>

SixMonths == <<1000, 1000, 1000, 1000, 1000, 5000>>

\* C9: for the monthly totals [1000,1000,1000,1000,1000,5000], oldest first,
\* the Spend Analyzer's trend entry says 'increasing', detectAnomalies flags
\* the last point only, and the report holds exactly one spike_detected entry,
\* reporting 1 spike with severity 'medium'.
C9_SixMonthScenario ==
  \A c \in DOMAIN calls :
    (/\ Returned(c)
     /\ calls[c].input.reportType = "spend-summary"
     /\ calls[c].input.summary.kind # "null"
     /\ Reverse(calls[c].input.summary.byMonth) = SixMonths) =>
      LET got == calls[c].insights
          spikes == EntriesOfType(got.anomalies, "spike_detected")
      IN /\ Len(got.trends) = 1
         /\ got.trends[1].type = "spending_trend"
         /\ got.trends[1].trend = "increasing"
         /\ AnomalyIndices(detectAnomalies(SixMonths, DefaultThreshold)) = <<5>>
         /\ Cardinality(spikes) = 1
         /\ \A k \in spikes :
              /\ got.anomalies[k].count = 1
              /\ got.anomalies[k].word = "spike"
              /\ got.anomalies[k].details = <<0>>
              /\ got.anomalies[k].severity = "medium"

C9_Witness ==
  \E c \in DOMAIN calls :
    /\ Returned(c)
    /\ calls[c].input.reportType = "spend-summary"
    /\ calls[c].input.summary.kind = "ok"
    /\ Reverse(calls[c].input.summary.byMonth) = SixMonths
    /\ calls[c].insights.anomalies # <<>>

\* whether an entry carries NaN or Infinity in a numeric field or in the
\* number its message renders
NonFinite(entry) ==
  CASE entry.type = "concentration_risk" -> entry.share.inf
    [] entry.type = "approval_time" -> entry.value.den = 0
    [] entry.type = "tax_growth" -> entry.value.den = 0
    [] entry.type = "tax_forecast" -> entry.value.den = 0
    [] entry.type = "approval_efficiency" ->
         entry.approvalRate.den = 0 \/ entry.rejectionRate.den = 0
    [] entry.type = "amount_anomalies" ->
         \E k \in 1..Len(entry.details) : entry.details[k].zScoreSq.den = 0
    [] OTHER -> FALSE

\* C11: no entry of a returned report carries NaN or Infinity in a numeric
\* field or in its message, for any records and summary (zero totals, zero
\* amounts, zero standard deviation and unparseable approval-history
\* timestamps included).
C11_NoNaNOrInfinity ==
  \A c \in DOMAIN calls :
    Returned(c) =>
      \A k \in Categories :
        \A j \in 1..Len(calls[c].insights[k]) : ~NonFinite(calls[c].insights[k][j])

---------------------------------------------------------------------------
(* Determinism of generateRealInsights, checked under SpecConc *)

---------------------------------------------------------------------------
(* Properties of the approval workflow, checked under SpecFlow *)

\* the ids of the approvals of document d
ApprovalsOf(d) == {a \in DOMAIN approvals : approvals[a].document_id = d}

ApprovedAt(d, step) ==
  {a \in ApprovalsOf(d) : approvals[a].step = step /\ approvals[a].status = "approved"}

\* C12: a document none of whose approvals has been processed is 'pending'
\* with exactly one approval, a pending one of step 1; approving step 1 or 2
\* leaves the document 'pending' with a pending approval of the next step;
\* and an 'approved' document has approved approvals of steps 1, 2 and 3,
\* created in that order.
C12_ThreeStepOrder ==
  \A d \in DOMAIN documents :
    /\ (\A a \in ApprovalsOf(d) : approvals[a].status = "pending") =>
         /\ documents[d].status = "pending"
         /\ Cardinality(ApprovalsOf(d)) = 1
         /\ \A a \in ApprovalsOf(d) : approvals[a].step = 1
    /\ documents[d].status = "approved" =>
         \E a1 \in ApprovedAt(d, 1), a2 \in ApprovedAt(d, 2), a3 \in ApprovedAt(d, 3) :
           a1 < a2 /\ a2 < a3

\* a processApproval request by `role` that has read the pending step-3
\* approval it names
AtFinalStep(q, roles) ==
  /\ q.op = "process"
  /\ q.role \in roles
  /\ q.status \in {"approved", "rejected"}
  /\ q.seen.step = 3
  /\ q.seen.status = "pending"

\* C13: an approver or viewer never processes a step-3 approval: the request
\* is answered 403 and no row of approvals or documents changes, so every
\* step-3 approval that is approved or rejected was processed by an admin.
C13_FinalStepAdminOnly ==
  /\ [](\A a \in DOMAIN approvals :
          (approvals[a].step = 3 /\ approvals[a].status # "pending")
          => approvals[a].by = "admin")
  /\ [](\A r \in DOMAIN reqs :
          AtFinalStep(reqs[r], {"approver", "viewer"})
          => reqs[r].pc = "done" /\ reqs[r].response = 403)
  /\ [][\A r \in DOMAIN reqs :
          (reqs[r] # reqs'[r] /\ AtFinalStep(reqs'[r], {"approver", "viewer"}))
          => documents' = documents /\ approvals' = approvals]_vars

\* an approver has been refused a pending step-3 approval that an admin then
\* processed
C13_Witness ==
  /\ \E r \in DOMAIN reqs :
       AtFinalStep(reqs[r], {"approver"}) /\ reqs[r].response = 403
  /\ \E a \in DOMAIN approvals :
       approvals[a].step = 3 /\ approvals[a].status = "approved" /\ approvals[a].by = "admin"

---------------------------------------------------------------------------
(* Properties of uploadDocument, checked under SpecUpload *)

\* an upload request has just run its duplicate check, and its queries did
\* not fail
Checked(r) ==
  /\ reqs[r].pc = "idle"
  /\ reqs'[r].op = "upload"
  /\ reqs'[r].found # "error"

\* the upload request answers 400 in this step, and no row is written
RejectedNow(r) ==
  /\ reqs'[r].pc = "done"
  /\ reqs'[r].response = 400
  /\ documents' = documents
  /\ approvals' = approvals

SpendRunOf(c) ==
  /\ Returned(c)
  /\ calls[c].input.reportType = "spend-summary"
  /\ calls[c].input.summary.kind # "null"

\* C18: when the monthly series has at least 2 points the Spend Analyzer
\* emits exactly one spending_trend entry (confidence 'high' iff the series
\* has at least 6 months, else 'medium'), exactly one spending_forecast entry
\* holding 3 forecast values, and a spike_detected entry iff detectAnomalies
\* on the series is non-empty (severity 'high' iff more than 2 spikes, else
\* 'medium'); with fewer than 2 points it emits none of the three.
C18_SpendEmissionRules ==
  \A c \in DOMAIN calls :
    SpendRunOf(c) =>
      LET months == Reverse(calls[c].input.summary.byMonth)
          got == calls[c].insights
          trendAt == EntriesOfType(got.trends, "spending_trend")
          forecastAt == EntriesOfType(got.predictions, "spending_forecast")
          spikeAt == EntriesOfType(got.anomalies, "spike_detected")
          found == detectAnomalies(months, DefaultThreshold)
      IN IF Len(months) >= 2
         THEN /\ Cardinality(trendAt) = 1
              /\ \A k \in trendAt :
                   (got.trends[k].confidence = "high") = (Len(months) >= 6)
              /\ \A k \in trendAt : got.trends[k].confidence \in {"high", "medium"}
              /\ Cardinality(forecastAt) = 1
              /\ \A k \in forecastAt : Len(got.predictions[k].values) = 3
              /\ Cardinality(spikeAt) = (IF Len(found) > 0 THEN 1 ELSE 0)
              /\ \A k \in spikeAt :
                   /\ (got.anomalies[k].severity = "high") = (Len(found) > 2)
                   /\ got.anomalies[k].severity \in {"high", "medium"}
         ELSE trendAt = {} /\ forecastAt = {} /\ spikeAt = {}

\* a six-month series with one spike: trend confidence 'high', severity
\* 'medium'
C18_Witness ==
  \E c \in DOMAIN calls :
    /\ SpendRunOf(c)
    /\ Len(calls[c].input.summary.byMonth) = 6
    /\ \E k \in DOMAIN calls[c].insights.anomalies :
         /\ calls[c].insights.anomalies[k].type = "spike_detected"
         /\ calls[c].insights.anomalies[k].severity = "medium"
    /\ \E k \in DOMAIN calls[c].insights.trends :
         calls[c].insights.trends[k].confidence = "high"
    /\ \E k \in DOMAIN calls[c].insights.predictions :
         calls[c].insights.predictions[k].type = "spending_forecast"

\* three spikes: severity 'high'
C18_ThreeSpikesReached ==
  \E c \in DOMAIN calls :
    /\ SpendRunOf(c)
    /\ \E k \in DOMAIN calls[c].insights.anomalies :
         /\ calls[c].insights.anomalies[k].type = "spike_detected"
         /\ calls[c].insights.anomalies[k].count = 3
         /\ calls[c].insights.anomalies[k].severity = "high"

\* fewer than two months: nothing emitted
C18_ShortSeriesReached ==
  \E c \in DOMAIN calls :
    /\ SpendRunOf(c)
    /\ Len(calls[c].input.summary.byMonth) = 1
    /\ calls[c].insights.trends = <<>>

AmountsOf(data) == [i \in 1..Len(data) |-> data[i].amount]

\* a finished call over more than 10 records, none of them null
LongListCall(c) ==
  /\ Returned(c)
  /\ ~AnyRecord(calls[c].input.data, IsNull)
  /\ Len(calls[c].input.data) > 10

\* C19: for every report type, whenever the record list has more than 10
\* records and detectAnomalies over the per-record amounts with threshold 2.5
\* is non-empty, the returned report contains an amount_anomalies entry,
\* which is none of the report-specific anomaly entries.
C19_AmountAnomalyReported ==
  \A c \in DOMAIN calls :
    (/\ LongListCall(c)
     /\ calls[c].input.reportType \in ReportTypes
     /\ detectAnomalies(AmountsOf(calls[c].input.data), CrossThreshold) # <<>>)
    => /\ EntriesOfType(calls[c].insights.anomalies, "amount_anomalies") # {}
       /\ "amount_anomalies" \notin TypesOf(AnalyzerResult(calls[c].input).ins.anomalies)

\* the same for the calls whose report-specific analyzer did not throw
C19_AmountAnomalyAfterAnalyzer ==
  \A c \in DOMAIN calls :
    (/\ LongListCall(c)
     /\ calls[c].input.reportType \in ReportTypes
     /\ calls[c].threwIn # "analyzer"
     /\ detectAnomalies(AmountsOf(calls[c].input.data), CrossThreshold) # <<>>)
    => EntriesOfType(calls[c].insights.anomalies, "amount_anomalies") # {}

MonthsIn(data) == {data[i].month : i \in 1..Len(data)}

WeekdaysIn(data) == {data[i].dow : i \in 1..Len(data)}

TotalOfMonth(data, m) ==
  SumSeq([i \in 1..Len(data) |-> IF data[i].month = m THEN data[i].amount ELSE 0])

DocsOnWeekday(data, d) == Cardinality({i \in 1..Len(data) : data[i].dow = d})

\* C20: when the record count exceeds 10 the Cross-Cutting Analyzer adds one
\* seasonal_pattern entry naming the calendar month with the largest total
\* amount and one weekly_pattern entry naming the two weekdays with the
\* highest document counts, for every record list, one whose records all
\* fall on a single weekday included.
C20_PatternEntries ==
  \A c \in DOMAIN calls :
    (LongListCall(c) /\ calls[c].threwIn # "analyzer") =>
      LET data == calls[c].input.data
          got == calls[c].insights.patterns
          seasonal == EntriesOfType(got, "seasonal_pattern")
          weekly == EntriesOfType(got, "weekly_pattern")
      IN /\ Cardinality(seasonal) = 1
         /\ \A k \in seasonal :
              /\ got[k].month \in MonthsIn(data)
              /\ \A o \in MonthsIn(data) :
                   TotalOfMonth(data, got[k].month) >= TotalOfMonth(data, o)
         /\ Cardinality(weekly) = 1
         /\ \A k \in weekly :
              /\ got[k].days[1] \in WeekdaysIn(data)
              /\ \A o \in WeekdaysIn(data) :
                   DocsOnWeekday(data, got[k].days[1]) >= DocsOnWeekday(data, o)
              /\ \A o \in WeekdaysIn(data) \ {got[k].days[1]} :
                   DocsOnWeekday(data, got[k].days[2]) >= DocsOnWeekday(data, o)

\* the same for the record lists that fall on at least two weekdays
C20_PatternEntriesTwoWeekdays ==
  \A c \in DOMAIN calls :
    (/\ LongListCall(c)
     /\ calls[c].threwIn # "analyzer"
     /\ Cardinality(WeekdaysIn(calls[c].input.data)) >= 2) =>
      LET data == calls[c].input.data
          got == calls[c].insights.patterns
          weekly == EntriesOfType(got, "weekly_pattern")
      IN /\ Cardinality(EntriesOfType(got, "seasonal_pattern")) = 1
         /\ Cardinality(weekly) = 1
         /\ \A k \in weekly :
              /\ got[k].days[1] # got[k].days[2]
              /\ {got[k].days[1], got[k].days[2]} \subseteq WeekdaysIn(data)

CrossCuttingPatterns == {"seasonal_pattern", "weekly_pattern"}

\* C21 as the specification states it: for a record list of 10 or fewer
\* records the returned report contains no pattern entry of the
\* Cross-Cutting Analyzer and no amount_anomalies entry.
C21_NothingUpToTenRecords ==
  \A c \in DOMAIN calls :
    (Returned(c) /\ Len(calls[c].input.data) <= 10) =>
      /\ TypesOf(calls[c].insights.patterns) \cap CrossCuttingPatterns = {}
      /\ "amount_anomalies" \notin TypesOf(calls[c].insights.anomalies)

\* C21 (amended): the Cross-Cutting Analyzer contributes pattern entries only
\* when the record count exceeds 10 and an amount_anomalies entry only when
\* it exceeds 5: a list of 10 or fewer records yields no seasonal_pattern or
\* weekly_pattern entry, and a list of 5 or fewer yields no amount_anomalies
\* entry either.
C21_PatternsAboveTenAmountsAboveFive ==
  \A c \in DOMAIN calls :
    Returned(c) =>
      /\ Len(calls[c].input.data) <= 10 =>
           TypesOf(calls[c].insights.patterns) \cap CrossCuttingPatterns = {}
      /\ Len(calls[c].input.data) <= 5 =>
           "amount_anomalies" \notin TypesOf(calls[c].insights.anomalies)

\* ten records or fewer, no pattern entry, and an amount_anomalies entry
C21_Witness ==
  \E c \in DOMAIN calls :
    /\ Returned(c)
    /\ Len(calls[c].input.data) <= 10
    /\ calls[c].threwIn = "none"
    /\ calls[c].insights.patterns = <<>>
    /\ "amount_anomalies" \in TypesOf(calls[c].insights.anomalies)

---------------------------------------------------------------------------
(* Properties of generateReport, checked under SpecReport *)

\* the periods (months or quarters, as numbers growing with time) that the
\* rows fall in, and the total of a value over the rows of one period
PeriodsOf(periods) == {periods[i] : i \in 1..Len(periods)}

PeriodTotal(periods, values, p) ==
  SumSeq([i \in 1..Len(periods) |-> IF periods[i] = p THEN values[i] ELSE 0])

\* the totals of the periods, oldest period first
Chronological(periods, values) ==
  LET present == PeriodsOf(periods)
      Rank(p) == Cardinality({q \in present : q < p}) + 1
  IN [k \in 1..Cardinality(present) |->
        PeriodTotal(periods, values, CHOOSE p \in present : Rank(p) = k)]

QuarterNumber(doc) == 4 * doc.year + doc.quarter

MonthNumber(doc) == 12 * doc.year + doc.sqlMonth

QuarterVat(data) ==
  Chronological([i \in 1..Len(data) |-> QuarterNumber(data[i])],
                [i \in 1..Len(data) |-> data[i].vat])

MonthTotals(data) ==
  Chronological([i \in 1..Len(data) |-> MonthNumber(data[i])],
                [i \in 1..Len(data) |-> data[i].amount])

TaxReportOf(c) ==
  /\ Returned(c)
  /\ calls[c].input.reportType = "tax-vat-report"
  /\ calls[c].input.summary = getTaxStats(calls[c].input.data)
  /\ DateDescending(calls[c].input.data)

\* C16: when summary.byQuarter is the one getTaxStats builds from the report
\* rows (in date-descending order) and has at least two quarters, the
\* tax_growth trend entry is the percent change of the most recent quarter's
\* VAT total relative to the quarter immediately before it (1 standing in for
\* a zero denominator).
C16_GrowthOfMostRecentQuarter ==
  \A c \in DOMAIN calls :
    (TaxReportOf(c) /\ Len(calls[c].input.summary.byQuarter) >= 2) =>
      LET vat == QuarterVat(calls[c].input.data)
          last == vat[Len(vat)]
          prev == vat[Len(vat) - 1]
          growth == EntriesOfType(calls[c].insights.trends, "tax_growth")
      IN /\ Cardinality(growth) = 1
         /\ \A k \in growth :
              calls[c].insights.trends[k].value =
                Frac(100 * (last - prev), IF prev = 0 THEN 1 ELSE prev)

SpendReportOf(c) ==
  /\ Returned(c)
  /\ calls[c].input.reportType = "spend-summary"
  /\ calls[c].input.summary = getSpendSummaryStats(calls[c].input.data)
  /\ DateDescending(calls[c].input.data)

\* C17: when summary.byMonth is the one getSpendSummaryStats builds from
\* report rows in date-descending order, the monthly series the Spend
\* Analyzer works on is in chronological order, oldest month first, with one
\* value per distinct month: it is the series of the months' totals, and the
\* trend, spike and forecast entries are those of detectTrend,
\* detectAnomalies and predictNext on that series.
C17_MonthlySeriesChronological ==
  \A c \in DOMAIN calls :
    SpendReportOf(c) =>
      LET months == MonthTotals(calls[c].input.data)
          got == calls[c].insights
          spikes == detectAnomalies(months, DefaultThreshold)
          forecast == predictNext(months, 3)
      IN /\ MonthlyAmounts(calls[c].input.summary) = months
         /\ Len(months) >= 2 =>
              /\ \A k \in EntriesOfType(got.trends, "spending_trend") :
                   /\ got.trends[k].trend = detectTrend(months)
                   /\ got.trends[k].months = Len(months)
              /\ EntriesOfType(got.trends, "spending_trend") # {}
              /\ \A k \in EntriesOfType(got.anomalies, "spike_detected") :
                   got.anomalies[k].details =
                     [j \in 1..Len(spikes) |-> Len(months) - 1 - spikes[j].index]
              /\ (EntriesOfType(got.anomalies, "spike_detected") # {}) = (Len(spikes) > 0)
              /\ \A k \in EntriesOfType(got.predictions, "spending_forecast") :
                   got.predictions[k].values =
                     [j \in 1..3 |-> ToFixed2(forecast.values[j])]
              /\ EntriesOfType(got.predictions, "spending_forecast") # {}

\* a report over three distinct months whose totals differ, the newest row
\* first
C17_Witness ==
  \E c \in DOMAIN calls :
    /\ SpendReportOf(c)
    /\ Len(calls[c].input.data) = MaxRows
    /\ calls[c].input.data[1].sqlMonth > calls[c].input.data[MaxRows].sqlMonth
    /\ Len(MonthTotals(calls[c].input.data)) = 3
    /\ MonthTotals(calls[c].input.data)[1] < MonthTotals(calls[c].input.data)[3]
    /\ calls[c].insights.trends # <<>>
    /\ calls[c].insights.predictions # <<>>

---------------------------------------------------------------------------
(* Properties of zero-variance series, checked under SpecZeroVar *)

\* a finished call of the Vendor Analyzer over rows with equal totals, or of
\* the Tax Analyzer over rows with equal rates
UniformCall(c) ==
  /\ Returned(c)
  /\ Len(calls[c].input.data) > 0
  /\ \/ /\ calls[c].input.reportType = "vendor-analysis"
        /\ AllEqual([i \in 1..Len(calls[c].input.data) |-> calls[c].input.data[i].total_amount])
     \/ /\ calls[c].input.reportType = "tax-vat-report"
        /\ \A i \in 1..Len(calls[c].input.data) :
             calls[c].input.data[i].vat * calls[c].input.data[1].amount
               = calls[c].input.data[1].vat * calls[c].input.data[i].amount

NoAnalyzerAnomaly(c) ==
  TypesOf(calls[c].insights.anomalies) \cap {"unusual_vendors", "tax_inconsistency"} = {}

\* C22 as the specification states it: for every series of 3 or more
\* identical values and every threshold, detectAnomalies returns the empty
\* list, and the Vendor and Tax analyzers emit no anomaly entry when all
\* per-vendor totals (all per-document tax rates) are equal.
C22_ZeroVarianceAnomalyFree ==
  /\ (applied \in {"detectAnomalies", "detectAnomalies, mean rounded"}
        /\ Len(series) >= 3 /\ AllEqual(series)) => anomalies = <<>>
  /\ \A c \in DOMAIN calls : UniformCall(c) => NoAnalyzerAnomaly(c)

\* C22 (amended): for every series of 3 or more identical values whose mean
\* the floating-point computation yields exactly (sum and quotient are not
\* rounded), and every threshold, detectAnomalies returns the empty list;
\* and on the same condition the Vendor and Tax analyzers emit no anomaly
\* entry when all per-vendor totals (all per-document tax rates) are equal.
C22_ExactMeanAnomalyFree ==
  /\ (applied = "detectAnomalies" /\ Len(series) >= 3 /\ AllEqual(series))
       => anomalies = <<>>
  /\ \A c \in DOMAIN calls : UniformCall(c) => NoAnalyzerAnomaly(c)

\* with a rounded mean every point of a series of identical values has the
\* z-score 1: all are returned for a threshold below 1, none from 1 on
C22_RoundedMeanScoresOne ==
  (applied = "detectAnomalies, mean rounded" /\ Len(series) >= 3 /\ AllEqual(series))
    => IF arg >= 10 THEN anomalies = <<>> ELSE Len(anomalies) = Len(series)

\* detectAnomalies has returned the empty list for identical values at
\* threshold 0, the mean being exact
C22_Witness ==
  /\ applied = "detectAnomalies"
  /\ arg = 0
  /\ Len(series) >= 3
  /\ AllEqual(series)
  /\ anomalies = <<>>

\* the Tax Analyzer has run over eleven rows of two amounts and one rate
C22_UniformRatesReached ==
  \E c \in DOMAIN calls :
    /\ UniformCall(c)
    /\ calls[c].input.reportType = "tax-vat-report"
    /\ Len(calls[c].input.data) = MaxRecords
    /\ calls[c].input.data[1].amount # calls[c].input.data[MaxRecords].amount

---------------------------------------------------------------------------
(* Properties of the Vendor Analyzer, checked under SpecVendor *)

\* the names of the vendors from the i-th on that are in `keep`, in the
\* order of the rows
RECURSIVE NamesFrom(_, _, _)
NamesFrom(data, keep, i) ==
  IF i > Len(data) THEN <<>>
  ELSE (IF i \in keep THEN <<data[i].vendor_name>> ELSE <<>>) \o NamesFrom(data, keep, i + 1)

TotalsOf(data) == [i \in 1..Len(data) |-> data[i].total_amount]

\* more than 2 population standard deviations from the mean per-vendor total
Unusual(data) == {i \in 1..Len(data) : Outlier(TotalsOf(data), i, 20)}

\* more than 5 approved documents and more than 80% of the decided ones approved
Growing(data) ==
  {i \in 1..Len(data) :
     /\ data[i].approved_count > 5
     /\ 100 * data[i].approved_count
          > 80 * (data[i].approved_count + data[i].rejected_count)}

\* rejected documents above 30% of all documents
Risky(data) ==
  {i \in 1..Len(data) : 100 * data[i].rejected_count > 30 * data[i].document_count}

\* the entries of `type` are one entry listing `names`, or none when `names`
\* is empty
ListsExactly(entries, type, names) ==
  /\ Cardinality(EntriesOfType(entries, type)) = (IF names = <<>> THEN 0 ELSE 1)
  /\ \A k \in EntriesOfType(entries, type) : entries[k].vendors = names

---------------------------------------------------------------------------
(* Properties of the Approval Analyzer, checked under SpecApproval *)

\* the documents that are pending with pending steps left
Stuck(data) ==
  {i \in 1..Len(data) : data[i].document_status = "pending" /\ data[i].pending_steps > 0}

\* the workflow step a document is at: the first one when none is recorded
WorkflowStep(doc) == IF doc.current_step = 0 THEN 1 ELSE doc.current_step

StuckAtStep(data, step) == Cardinality({i \in Stuck(data) : WorkflowStep(data[i]) = step})

\* C24: a document is stuck iff its status is 'pending' and pending_steps >
\* 0; an approval_bottleneck risk entry is emitted iff at least one document
\* is stuck, it names a workflow step whose number of stuck documents is
\* maximal among all steps, and its severity is 'high' iff more than 10
\* documents are stuck in total, else 'medium'.
C24_Bottleneck ==
  \A c \in DOMAIN calls :
    (Returned(c) /\ calls[c].input.reportType = "approval-status"
       /\ calls[c].threwIn # "analyzer") =>
      LET data == calls[c].input.data
          risks == calls[c].insights.risks
          found == EntriesOfType(risks, "approval_bottleneck")
      IN /\ Cardinality(found) = (IF Stuck(data) = {} THEN 0 ELSE 1)
         /\ \A k \in found :
              /\ risks[k].stuck = Cardinality(Stuck(data))
              /\ risks[k].step \in {WorkflowStep(data[i]) : i \in Stuck(data)}
              /\ risks[k].pending = StuckAtStep(data, risks[k].step)
              /\ \A i \in Stuck(data) :
                   StuckAtStep(data, risks[k].step) >= StuckAtStep(data, WorkflowStep(data[i]))
              /\ risks[k].severity = (IF Cardinality(Stuck(data)) > 10 THEN "high" ELSE "medium")

\* eleven stuck documents, one of them without a recorded step: severity
\* 'high', bottleneck at step 2
C24_Witness ==
  \E c \in DOMAIN calls :
    /\ Returned(c)
    /\ calls[c].input.reportType = "approval-status"
    /\ \E i \in Stuck(calls[c].input.data) : calls[c].input.data[i].current_step = 0
    /\ \E k \in DOMAIN calls[c].insights.risks :
         /\ calls[c].insights.risks[k].type = "approval_bottleneck"
         /\ calls[c].insights.risks[k].severity = "high"
         /\ calls[c].insights.risks[k].step = 2

\* exactly ten stuck documents: severity 'medium'
C24_TenStuckReached ==
  \E c \in DOMAIN calls :
    /\ Returned(c)
    /\ Cardinality(Stuck(calls[c].input.data)) = 10
    /\ \E k \in DOMAIN calls[c].insights.risks :
         /\ calls[c].insights.risks[k].type = "approval_bottleneck"
         /\ calls[c].insights.risks[k].severity = "medium"

---------------------------------------------------------------------------
(* Properties of analyzeTemporalPatterns, checked under SpecTemporal *)

RECURSIVE SumCounts(_, _)
SumCounts(buckets, keys) ==
  IF keys = {} THEN 0
  ELSE LET k == CHOOSE x \in keys : TRUE
       IN buckets[k].count + SumCounts(buckets, keys \ {k})

RECURSIVE SumTotals(_, _)
SumTotals(buckets, keys) ==
  IF keys = {} THEN 0
  ELSE LET k == CHOOSE x \in keys : TRUE
       IN buckets[k].total + SumTotals(buckets, keys \ {k})

\* the counts of a grouping sum to the number of documents and its totals to
\* the sum of their amounts
Conserves(buckets, docs) ==
  /\ SumCounts(buckets, DOMAIN buckets) = Len(docs)
  /\ SumTotals(buckets, DOMAIN buckets) = SumSeq([i \in 1..Len(docs) |-> docs[i].amount])

MonthsOfQuarter(q) == {3 * (q - 1), 3 * (q - 1) + 1, 3 * (q - 1) + 2}

\* quarter q holds as many documents as its three months together
QuarterIsItsMonths(p, q) ==
  p.byQuarter[q].count = SumCounts(p.byMonth, MonthsOfQuarter(q) \cap DOMAIN p.byMonth)

\* C25 as the specification states it: analyzeTemporalPatterns places every
\* record in exactly one day-of-week bucket (0..6), one month bucket (0..11)
\* and one quarter bucket (1..4); in each grouping the counts sum to the
\* number of records and the totals to the sum of the amounts, and each
\* quarter's count equals the sum of the counts of its three months.
C25_EveryRecordInCalendarBuckets ==
  patterns.done =>
    /\ DOMAIN patterns.byDayOfWeek \subseteq 0..6
    /\ DOMAIN patterns.byMonth \subseteq 0..11
    /\ DOMAIN patterns.byQuarter \subseteq 1..4
    /\ Conserves(patterns.byDayOfWeek, patterns.documents)
    /\ Conserves(patterns.byMonth, patterns.documents)
    /\ Conserves(patterns.byQuarter, patterns.documents)
    /\ \A q \in DOMAIN patterns.byQuarter : QuarterIsItsMonths(patterns, q)

\* the documents of a weekday, a month or a quarter
OnWeekday(docs, d) == {i \in 1..Len(docs) : docs[i].dow = d}

InMonthOf(docs, m) == {i \in 1..Len(docs) : docs[i].month = m}

InQuarterOf(docs, q) ==
  {i \in 1..Len(docs) : docs[i].month \in MonthsOfQuarter(q)}

\* C25 (amended): analyzeTemporalPatterns places every record with a valid
\* date in exactly one day-of-week bucket (0..6), one month bucket (0..11)
\* and one quarter bucket (1..4, floor(month/3)+1), and every record without
\* one in the bucket 'NaN' of each grouping; in each grouping the counts sum
\* to the number of records and the totals to the sum of the amounts, and
\* the count of each quarter 1..4 equals the sum of the counts of its three
\* months.
C25_DatedRecordsInCalendarBuckets ==
  patterns.done =>
    /\ DOMAIN patterns.byDayOfWeek \subseteq (0..6) \cup {InvalidDate}
    /\ DOMAIN patterns.byMonth \subseteq (0..11) \cup {InvalidDate}
    /\ DOMAIN patterns.byQuarter \subseteq (1..4) \cup {InvalidDate}
    /\ \A d \in DOMAIN patterns.byDayOfWeek :
         patterns.byDayOfWeek[d].count = Cardinality(OnWeekday(patterns.documents, d))
    /\ \A m \in DOMAIN patterns.byMonth :
         patterns.byMonth[m].count = Cardinality(InMonthOf(patterns.documents, m))
    /\ \A q \in DOMAIN patterns.byQuarter \ {InvalidDate} :
         /\ patterns.byQuarter[q].count = Cardinality(InQuarterOf(patterns.documents, q))
         /\ QuarterIsItsMonths(patterns, q)
    /\ \A i \in 1..Len(patterns.documents) :
         /\ patterns.documents[i].dow \in DOMAIN patterns.byDayOfWeek
         /\ patterns.documents[i].month \in DOMAIN patterns.byMonth
         /\ patterns.documents[i].month # InvalidDate =>
              \E q \in DOMAIN patterns.byQuarter \ {InvalidDate} : i \in InQuarterOf(patterns.documents, q)
    /\ Conserves(patterns.byDayOfWeek, patterns.documents)
    /\ Conserves(patterns.byMonth, patterns.documents)
    /\ Conserves(patterns.byQuarter, patterns.documents)

\* three documents of two months of the first quarter and of the last
\* quarter have been grouped
C25_Witness ==
  /\ patterns.done
  /\ Len(patterns.documents) = MaxDated
  /\ DOMAIN patterns.byMonth = {0, 2, 11}
  /\ DOMAIN patterns.byQuarter = {1, 4}
  /\ patterns.byQuarter[1].count = 2

\* a document without a date has been grouped
C25_UndatedReached ==
  /\ patterns.done
  /\ InvalidDate \in DOMAIN patterns.byMonth
  /\ Cardinality(DOMAIN patterns.byMonth) > 1

---------------------------------------------------------------------------
(* Properties of processApproval under concurrent requests, checked under
   SpecFlow *)

PendingOf(d) == {a \in ApprovalsOf(d) : approvals[a].status = "pending"}

AtStep(d, step) == {a \in ApprovalsOf(d) : approvals[a].step = step}

\* C26: every document has at most one approval row with status 'pending'
\* and at most one approval row per step, also when two processApproval
\* requests for the same approval id both read the approval as pending
\* before either commits.
C26_OnePendingOneRowPerStep ==
  \A d \in DOMAIN documents :
    /\ Cardinality(PendingOf(d)) <= 1
    /\ \A step \in 1..3 : Cardinality(AtStep(d, step)) <= 1

Final(status) == status \in {"approved", "rejected"}

\* the highest step at which an approval of d was rejected, 0 when none was
RejectedStep(d) ==
  LET steps == {approvals[a].step : a \in {b \in ApprovalsOf(d) : approvals[b].status = "rejected"}}
  IN IF steps = {} THEN 0 ELSE CHOOSE k \in steps : \A j \in steps : j <= k

\* C27: once a document's status is 'approved' or 'rejected' no step changes
\* it; a document with an approval rejected at step k has no approval row of
\* a step greater than k; and a document's status is 'pending' exactly while
\* it has a pending approval row.
C27_FinalStatusTerminal ==
  /\ [][\A d \in DOMAIN documents :
          Final(documents[d].status) => documents'[d].status = documents[d].status]_vars
  /\ [](\A d \in DOMAIN documents :
          RejectedStep(d) > 0 => \A a \in ApprovalsOf(d) : approvals[a].step <= RejectedStep(d))
  /\ [](\A d \in DOMAIN documents :
          documents[d].status = "pending" <=> PendingOf(d) # {})

\* a processApproval request that was refused with 400 or 404
Refused(q) ==
  /\ q.op = "process"
  /\ q.pc = "done"
  /\ q.response \in {400, 404}

\* a processApproval request that named an approval it read as already
\* processed
ReadProcessed(q) ==
  /\ q.op = "process"
  /\ q.status \in {"approved", "rejected"}
  /\ q.seen # NoApproval
  /\ q.seen.status # "pending"

\* C28: the step in which a processApproval request is refused with 400
\* (a status other than 'approved' or 'rejected', or an approval that is no
\* longer 'pending') or 404 (unknown approval id) changes no row of
\* approvals, documents or document_logs, and a refused request never
\* reaches the UPDATE; a request that reads an approval another request has
\* already processed is refused with 400, so it changes nothing.
C28_RefusedRequestsChangeNothing ==
  /\ [][\A r \in DOMAIN reqs :
          (reqs[r] # reqs'[r] /\ Refused(reqs'[r]))
          => /\ reqs[r].pc = "idle"
             /\ approvals' = approvals
             /\ documents' = documents
             /\ logs' = logs]_vars
  /\ [](\A r \in DOMAIN reqs :
          ReadProcessed(reqs[r]) => reqs[r].pc = "done" /\ reqs[r].response = 400)
  /\ [](\A r \in DOMAIN reqs :
          (reqs[r].op = "process" /\ reqs[r].pc = "update")
          => /\ reqs[r].status \in {"approved", "rejected"}
             /\ reqs[r].seen # NoApproval
             /\ reqs[r].seen.status = "pending")

\* each of the three refusals has happened: an invalid status, an unknown
\* id, and a second request for an approval that was approved before
C28_Witness ==
  /\ \E a \in DOMAIN approvals : approvals[a].status = "approved"
  /\ \E r \in DOMAIN reqs : Refused(reqs[r]) /\ ReadProcessed(reqs[r])

C28_InvalidStatusReached ==
  \E r \in DOMAIN reqs :
    Refused(reqs[r]) /\ reqs[r].response = 400 /\ reqs[r].status = "pending"

C28_UnknownIdReached ==
  \E r \in DOMAIN reqs :
    Refused(reqs[r]) /\ reqs[r].response = 404 /\ reqs[r].seen = NoApproval

---------------------------------------------------------------------------
(* Properties of uploadDocument under concurrent uploads, checked under
   SpecUpload *)

\* upload request r is answered in this step
UploadAnswered(r) ==
  /\ reqs[r] # reqs'[r]
  /\ reqs'[r].op = "upload"
  /\ reqs'[r].pc = "done"

\* the rows a successful upload of `in` adds for its document d
UploadedRows(d, in) ==
  /\ documents' = Append(documents, DocumentRow(in.vendor_id, in.invoice_number, in.amount))
  /\ d = Len(documents')
  /\ documents'[d].status = "pending"
  /\ approvals' = Append(approvals, ApprovalRow(d, 1, "approver"))
  /\ approvals'[Len(approvals')].status = "pending"
  /\ logs' = Append(logs, LogRow(d, "approval_workflow_started"))

\* C29: an upload answered with an error (no file, a missing field, a
\* duplicate, a unique violation or a failed statement of the transaction)
\* leaves no row in documents, approvals or document_logs and no stored
\* file; an upload answered 201 has added its document row with status
\* 'pending', a pending step-1 approval of that document and its
\* workflow-start log row; and no two documents share (invoice_number,
\* vendor_id), however the uploads interleave.
C29_UploadAllOrNothing ==
  /\ [][\A r \in DOMAIN reqs :
          (UploadAnswered(r) /\ reqs'[r].response # 201)
          => /\ reqs'[r].response \in {400, 500}
             /\ documents' = documents
             /\ approvals' = approvals
             /\ logs' = logs
             /\ reqs'[r].file # "stored"]_vars
  /\ [][\A r \in DOMAIN reqs :
          (UploadAnswered(r) /\ reqs'[r].response = 201)
          => /\ UploadedRows(Len(documents) + 1, reqs'[r].input)
             /\ reqs'[r].file = "stored"]_vars
  /\ [](\A d, e \in DOMAIN documents :
          (/\ documents[d].invoice_number = documents[e].invoice_number
           /\ documents[d].vendor_id = documents[e].vendor_id) => d = e)

\* an upload request answered with the given status after the given
\* statement failed
UploadFailed(response, failedAt) ==
  \E r \in DOMAIN reqs :
    /\ reqs[r].op = "upload"
    /\ reqs[r].pc = "done"
    /\ reqs[r].response = response
    /\ reqs[r].failedAt = failedAt
    /\ reqs[r].file = "removed"

\* two uploads of the same invoice ran their duplicate checks before either
\* committed: one is answered 201 and its rows exist, the other hit the
\* unique constraint and is answered 400
C29_Witness ==
  /\ \E r \in DOMAIN reqs :
       /\ reqs[r].op = "upload"
       /\ reqs[r].pc = "done"
       /\ reqs[r].response = 201
  /\ \E r \in DOMAIN reqs :
       /\ reqs[r].op = "upload"
       /\ reqs[r].found = "none"
       /\ reqs[r].response = 400
       /\ reqs[r].failedAt = "documents"
       /\ reqs[r].file = "removed"
  /\ Len(documents) = 1
  /\ Len(approvals) = 1
  /\ Len(logs) = 1

\* the COMMIT failed
C29_CommitFailureReached == UploadFailed(500, "commit")

\* the INSERT into document_logs failed
C29_LogFailureReached == UploadFailed(500, "document_logs")

\* a request without a file, and one without a required field
C29_IncompleteRequestsReached ==
  /\ \E r \in DOMAIN reqs :
       reqs[r].found = "file" /\ reqs[r].response = 400 /\ reqs[r].file = "none"
  /\ \E r \in DOMAIN reqs :
       reqs[r].found = "field" /\ reqs[r].response = 400 /\ reqs[r].file = "removed"

---------------------------------------------------------------------------
(* The small-sample bound of the z-score rule, checked under SpecSmall *)

\* detectAnomalies has been applied with the default threshold to a series
\* of at most n values
SmallSeriesApplied(n) ==
  /\ applied = "detectAnomalies"
  /\ arg = DefaultThreshold
  /\ Len(series) <= n

\* no spike_detected entry for at most n months, no unusual_vendors entry
\* for at most n vendors
NoSmallSampleAnomaly(n) ==
  \A c \in DOMAIN calls :
    /\ (SpendRunOf(c) /\ Len(calls[c].input.summary.byMonth) <= n)
         => "spike_detected" \notin TypesOf(calls[c].insights.anomalies)
    /\ (/\ Returned(c)
        /\ calls[c].input.reportType = "vendor-analysis"
        /\ Len(calls[c].input.data) <= n)
         => "unusual_vendors" \notin TypesOf(calls[c].insights.anomalies)

\* C30 as the specification states it: detectAnomalies with the default
\* threshold 2 returns the empty list for every series of 5 or fewer values,
\* the Spend Analyzer emits no spike_detected entry for 5 or fewer months
\* and the Vendor Analyzer flags no unusual vendor among 5 or fewer vendors.
C30_NoAnomalyUpToFiveValues ==
  /\ SmallSeriesApplied(5) => anomalies = <<>>
  /\ NoSmallSampleAnomaly(5)

\* C30 (amended): detectAnomalies with the default threshold 2 returns the
\* empty list for every series of 4 or fewer values, the Spend Analyzer
\* emits no spike_detected entry for 4 or fewer months and the Vendor
\* Analyzer flags no unusual vendor among 4 or fewer vendors.
C30_NoAnomalyUpToFourValues ==
  /\ SmallSeriesApplied(4) => anomalies = <<>>
  /\ NoSmallSampleAnomaly(4)

\* four values, one of them apart from three equal ones: the largest z-score
\* four values can have, and nothing is returned
C30_Witness ==
  /\ SmallSeriesApplied(4)
  /\ Len(series) = 4
  /\ \E i \in 1..4 : \A j, k \in (1..4) \ {i} : series[j] = series[k] /\ series[j] # series[i]
  /\ anomalies = <<>>

\* five values, the odd one returned
C30_RoundedUpReached ==
  /\ SmallSeriesApplied(5)
  /\ series \in RoundedUpSeries
  /\ Len(anomalies) = 1

\* four months with one spike and four vendors with one large total have
\* been analyzed
C30_FourMonthsReached ==
  \E c \in DOMAIN calls :
    /\ SpendRunOf(c)
    /\ calls[c].input.summary.byMonth = <<5000, 1000, 1000, 1000>>

C30_FourVendorsReached ==
  \E c \in DOMAIN calls :
    /\ Returned(c)
    /\ calls[c].input.reportType = "vendor-analysis"
    /\ TotalsOf(calls[c].input.data) = <<100, 100, 100, 900>>

====
